---- MODULE Spec2Model ----
(***************************************************************************)
(* git-repo-checker: the repository state reconciliation engine.           *)
(*                                                                         *)
(*   git_ops.py   the VCS command gateway and the status resolver          *)
(*   scanner.py   the glob matcher shared by the scanner and the policy    *)
(*   analyzer.py  analyze_repo, should_auto_pull, scan_and_analyze         *)
(*   sync.py      sync_all (fleet synchronizer)                            *)
(*                                                                         *)
(* Text is a sequence of one-character strings, a path is the sequence of  *)
(* its components below the root "/".  A function that may raise returns   *)
(* Ok(value) or GitError(message); a caller that does not catch GitError   *)
(* passes it on.                                                           *)
(***************************************************************************)
EXTENDS Integers, Sequences, FiniteSets, TLC

\* ------------------------------------------------------------------ bounds
\* Number of repositories the scanner yields in one scan_and_analyze run.
NumRepos == 2
\* Largest ahead / behind / files-changed count a command reports.
MaxCount == 1
\* Largest number of lines of a `git status --porcelain` listing.
MaxLines == 2
\* Size of the thread pool (max_workers).
MaxWorkers == 2
\* Number of entries of the tracked-repo list given to sync_all.
NumTracked == 2

None == "None"

\* ------------------------------------------------------------ text helpers
IsPrefix(p, s) == Len(p) <= Len(s) /\ SubSeq(s, 1, Len(p)) = p

\* `sub in s`
Contains(s, sub) == \E i \in 0..(Len(s) - Len(sub)) : SubSeq(s, i + 1, i + Len(sub)) = sub

\* s.replace(old, ""): every non-overlapping occurrence, left to right
RECURSIVE Remove(_, _)
Remove(s, old) ==
    IF s = <<>> THEN <<>>
    ELSE IF IsPrefix(old, s) THEN Remove(SubSeq(s, Len(old) + 1, Len(s)), old)
    ELSE <<Head(s)>> \o Remove(Tail(s), old)

\* "/" + "/".join(components)
RECURSIVE JoinPath(_)
JoinPath(comps) ==
    IF comps = <<>> THEN <<>> ELSE <<"/">> \o Head(comps) \o JoinPath(Tail(comps))

\* str(path); the root itself is "/"
PathStr(path) == IF path = <<>> THEN <<"/">> ELSE JoinPath(path)

\* path.parts of an absolute path: ("/", c1, ..., cn)
PathParts(path) == << <<"/">> >> \o path

\* path.name: the last component, "" for the root
PathName(path) == IF path = <<>> THEN <<>> ELSE path[Len(path)]

\* Code points of the characters the model's names use, in ASCII order.
Alphabet == <<"*", "-", "/", "?", "a", "b", "c", "e", "i", "l", "m", "n", "o", "p", "r", "s", "t", "x">>

Ord(c) == CHOOSE i \in 1..Len(Alphabet) : Alphabet[i] = c

\* str.__lt__: lexicographic by code point
RECURSIVE StrLess(_, _)
StrLess(a, b) ==
    IF b = <<>> THEN FALSE
    ELSE IF a = <<>> THEN TRUE
    ELSE IF Head(a) = Head(b) THEN StrLess(Tail(a), Tail(b))
    ELSE Ord(Head(a)) < Ord(Head(b))

\* Path.__lt__: the parts tuples compared lexicographically
RECURSIVE PathLess(_, _)
PathLess(p, q) ==
    IF q = <<>> THEN FALSE
    ELSE IF p = <<>> THEN TRUE
    ELSE IF Head(p) = Head(q) THEN PathLess(Tail(p), Tail(q))
    ELSE StrLess(Head(p), Head(q))

\* ------------------------------------------------------------- scanner.py
\* fnmatch.fnmatch on POSIX: "*" matches any run of characters ("/" too),
\* "?" one character, anything else itself.  The patterns of the model hold
\* no "[" class.
RECURSIVE fnmatch(_, _)
fnmatch(name, pat) ==
    IF pat = <<>> THEN name = <<>>
    ELSE IF Head(pat) = "*"
        THEN fnmatch(name, Tail(pat)) \/ (name # <<>> /\ fnmatch(Tail(name), pat))
    ELSE IF name = <<>> THEN FALSE
    ELSE IF Head(pat) = "?" THEN fnmatch(Tail(name), Tail(pat))
    ELSE Head(pat) = Head(name) /\ fnmatch(Tail(name), Tail(pat))

\* One turn of the loop of matches_any_pattern: does this pattern return True
matches_pattern(path, pattern) ==
    LET path_str == PathStr(path)
        path_parts == PathParts(path)
        name == PathName(path)
        pattern_name == Remove(Remove(pattern, <<"*", "*", "/">>), <<"*", "*">>)
        first ==
            IF Contains(pattern, <<"*", "*">>)
            THEN fnmatch(name, pattern_name) \/ fnmatch(path_str, pattern)
            ELSE fnmatch(name, pattern) \/ fnmatch(path_str, pattern)
    IN  \/ first
        \/ \E k \in 1..Len(path_parts) :
              fnmatch(path_parts[k], Remove(pattern, <<"*", "*", "/">>))

matches_any_pattern(path, patterns) ==
    \E k \in 1..Len(patterns) : matches_pattern(path, patterns[k])

\* ------------------------------------------------------------- git_ops.py
Ok(v) == [raised |-> FALSE, value |-> v]

\* class GitError(Exception)
GitError(message) == [raised |-> TRUE, message |-> message]

\* What subprocess.run does with one git command: the process exits with a
\* return code and its output, the timeout expires, or it cannot be launched.
Exit(returncode, stdout) == [kind |-> "exit", returncode |-> returncode, stdout |-> stdout]
TimeoutExpired == [kind |-> "timeout", returncode |-> 0, stdout |-> <<>>]
OSError == [kind |-> "oserror", returncode |-> 0, stdout |-> <<>>]

run_git_command(proc) ==
    IF proc.kind = "timeout" THEN GitError("Command timed out")
    ELSE IF proc.kind = "oserror" THEN GitError("Failed to run git")
    ELSE Ok(proc)

\* The output of `git rev-parse --abbrev-ref HEAD` is one line: the name.
get_current_branch(proc) ==
    LET result == run_git_command(proc) IN
    IF result.raised THEN result
    ELSE IF result.value.returncode # 0 THEN GitError("Failed to get branch")
    ELSE Ok(result.value.stdout[1])

\* A porcelain line is its two status columns and a file name.  stdout.strip()
\* removes the leading blank of the first line, whose columns then shift.
StripFirst(lines) ==
    IF lines # <<>> /\ Head(lines)[1] = " "
    THEN << <<Head(lines)[2], " ">> >> \o Tail(lines)
    ELSE lines

\* line.startswith("??")
IsUntrackedLine(line) == line[1] = "?" /\ line[2] = "?"

RECURSIVE CountUntracked(_)
CountUntracked(lines) ==
    IF lines = <<>> THEN 0
    ELSE (IF IsUntrackedLine(Head(lines)) THEN 1 ELSE 0) + CountUntracked(Tail(lines))

\* get_repo_status without the branch that reports "dirty"
get_repo_status_NeverDirty(proc) ==
    LET result == run_git_command(proc) IN
    IF result.raised THEN result
    ELSE IF result.value.returncode # 0 THEN Ok(<<"error", 0, 0>>)
    ELSE LET lines == StripFirst(result.value.stdout)
             untracked == CountUntracked(lines)
             changed == Len(lines) - untracked
         IN  IF lines = <<>> THEN Ok(<<"clean", 0, 0>>)
             ELSE Ok(<<"untracked", changed, untracked>>)

get_repo_status(proc) ==
    LET result == run_git_command(proc) IN
    IF result.raised THEN result
    ELSE IF result.value.returncode # 0 THEN Ok(<<"error", 0, 0>>)
    ELSE LET lines == StripFirst(result.value.stdout)
             untracked == CountUntracked(lines)
             changed == Len(lines) - untracked
         IN  IF lines = <<>> THEN Ok(<<"clean", 0, 0>>)
             ELSE IF changed > 0 THEN Ok(<<"dirty", changed, untracked>>)
             ELSE Ok(<<"untracked", 0, untracked>>)

has_upstream(proc) ==
    LET result == run_git_command(proc) IN
    IF result.raised THEN result ELSE Ok(result.value.returncode = 0)

\* `git stash list`: entries exist iff the command prints something
has_stash(proc) ==
    LET result == run_git_command(proc) IN
    IF result.raised THEN result
    ELSE Ok(result.value.returncode = 0 /\ result.value.stdout # <<>>)

fetch_repo(proc) ==
    LET result == run_git_command(proc) IN
    IF result.raised THEN result ELSE Ok(result.value.returncode = 0)

\* A word of the rev-list output: a decimal number, or text int() rejects.
Number(n) == [isdigit |-> TRUE, n |-> n]
Word == [isdigit |-> FALSE, n |-> 0]

\* get_remote_status without the upstream check of lines 142-143
get_remote_status_Unchecked(upstream_proc, revlist_proc) ==
    LET result == run_git_command(revlist_proc) IN
    IF result.raised THEN result
    ELSE IF result.value.returncode # 0 THEN Ok(<<0, 0>>)
    ELSE LET parts == result.value.stdout IN
         IF Len(parts) # 2 THEN Ok(<<0, 0>>)
         ELSE IF ~(parts[1].isdigit /\ parts[2].isdigit) THEN Ok(<<0, 0>>)
         ELSE Ok(<<parts[2].n, parts[1].n>>)

get_remote_status(upstream_proc, revlist_proc) ==
    LET upstream == has_upstream(upstream_proc) IN
    IF upstream.raised THEN upstream
    ELSE IF ~upstream.value THEN Ok(<<0, 0>>)
    ELSE LET result == run_git_command(revlist_proc) IN
         IF result.raised THEN result
         ELSE IF result.value.returncode # 0 THEN Ok(<<0, 0>>)
         ELSE LET parts == result.value.stdout IN
              IF Len(parts) # 2 THEN Ok(<<0, 0>>)
              ELSE IF ~(parts[1].isdigit /\ parts[2].isdigit) THEN Ok(<<0, 0>>)
              ELSE Ok(<<parts[2].n, parts[1].n>>)

\* One entry of the history of operations: the git command or filesystem
\* operation, and whether it came back with a positive answer (it did not
\* raise and, for a check, the check was true).
Op(cmd, ok) == [cmd |-> cmd, ok |-> ok]

Succeeded(result) == ~result.raised /\ result.value

\* The git commands get_remote_status issues, in order: the upstream check,
\* and rev-list only past the return of lines 142-143.
get_remote_status_ops(upstream_proc, revlist_proc) ==
    LET upstream == has_upstream(upstream_proc) IN
    <<Op("rev-parse @{upstream}", Succeeded(upstream))>>
    \o (IF upstream.raised \/ ~upstream.value THEN <<>>
        ELSE <<Op("rev-list", ~run_git_command(revlist_proc).raised)>>)

determine_remote_status_CleanOnly(ahead, behind, base_status) ==
    IF base_status # "clean" THEN base_status
    ELSE IF ahead > 0 /\ behind > 0 THEN "diverged"
    ELSE IF ahead > 0 THEN "ahead"
    ELSE IF behind > 0 THEN "behind"
    ELSE base_status

determine_remote_status_NoGuard(ahead, behind, base_status) ==
    IF base_status = "error" THEN base_status
    ELSE IF ahead > 0 /\ behind > 0 THEN "diverged"
    ELSE IF ahead > 0 THEN "ahead"
    ELSE IF behind > 0 THEN "behind"
    ELSE base_status

determine_remote_status_AheadFirst(ahead, behind, base_status) ==
    IF base_status \notin {"clean", "untracked"} THEN base_status
    ELSE IF ahead > 0 THEN "ahead"
    ELSE IF behind > 0 THEN "behind"
    ELSE base_status

\* The overlay applied to every base status that is not error
determine_remote_status_OverDirty(ahead, behind, base_status) ==
    IF base_status = "error" THEN base_status
    ELSE IF ahead > 0 /\ behind > 0 THEN "diverged"
    ELSE IF ahead > 0 THEN "ahead"
    ELSE IF behind > 0 THEN "behind"
    ELSE base_status

determine_remote_status(ahead, behind, base_status) ==
    IF base_status \notin {"clean", "untracked"} THEN base_status
    ELSE IF ahead > 0 /\ behind > 0 THEN "diverged"
    ELSE IF ahead > 0 THEN "ahead"
    ELSE IF behind > 0 THEN "behind"
    ELSE base_status

PullResult(path, success, message, files_changed) ==
    [path |-> path, success |-> success, message |-> message, files_changed |-> files_changed]

\* re.search(r"(\d+)\s+file", output): the pull output either holds
\* "<n> file(s) changed" or no such text.
parse_pull_files_changed(output) == IF output.summary THEN output.files ELSE 0

pull_repo(repo_path, proc) ==
    LET result == run_git_command(proc) IN
    IF result.raised THEN result
    ELSE IF result.value.returncode # 0
        THEN Ok(PullResult(repo_path, FALSE,
                           IF result.value.stderr # "" THEN result.value.stderr ELSE "Pull failed", 0))
    ELSE LET output == result.value.stdout IN
         Ok(PullResult(repo_path, TRUE,
                       IF output.up_to_date THEN "Already up to date" ELSE "Pull successful",
                       parse_pull_files_changed(output)))

\* ------------------------------------------------------------ analyzer.py
\* str.lower() on the branch names of the model
Lower(name) ==
    CASE name = "Main" -> "main"
      [] name = "HEAD" -> "head"
      [] name = "Remote" -> "remote"
      [] OTHER -> name

is_main_branch(branch, main_branches) ==
    \E k \in 1..Len(main_branches) : Lower(branch) = Lower(main_branches[k])

\* The checks chained, each one tried only if those before it did not apply
detect_warnings_FirstOnly(branch, status, is_main, has_remote, stash) ==
    IF is_main /\ status = "dirty" THEN <<"dirty_main">>
    ELSE IF ~has_remote THEN <<"no_remote">>
    ELSE IF branch = "HEAD" THEN <<"detached">>
    ELSE IF stash THEN <<"has_stash">>
    ELSE <<>>

detect_warnings(branch, status, is_main, has_remote, stash) ==
    (IF is_main /\ status = "dirty" THEN <<"dirty_main">> ELSE <<>>)
    \o (IF ~has_remote THEN <<"no_remote">> ELSE <<>>)
    \o (IF branch = "HEAD" THEN <<"detached">> ELSE <<>>)
    \o (IF stash THEN <<"has_stash">> ELSE <<>>)

\* RepoInfo(...) with the defaults of models.py for the fields not given
RepoInfo(path, branch, status, is_main, ahead, behind, changed, untracked, stash, warnings, error_message) ==
    [path |-> path, branch |-> branch, status |-> status, is_main_branch |-> is_main,
     ahead_count |-> ahead, behind_count |-> behind, changed_files |-> changed,
     untracked_files |-> untracked, has_stash |-> stash, warnings |-> warnings,
     error_message |-> error_message]

\* The error snapshot built without the path of the repository
ErrorInfo_NoPath(repo_path, e) ==
    RepoInfo(<<>>, "unknown", "error", FALSE, 0, 0, 0, 0, FALSE, <<>>, e.message)

\* The except branch of analyze_repo
ErrorInfo(repo_path, e) ==
    RepoInfo(repo_path, "unknown", "error", FALSE, 0, 0, 0, 0, FALSE, <<>>, e.message)

\* The except clause of analyze_repo lets the error of the fetch through.
analyze_repo_FetchUncaught(repo_path, g, config) ==
    LET branch == get_current_branch(g.branch)
        status == get_repo_status(g.status)
        has_remote == has_upstream(g.upstream)
        repo_has_stash == has_stash(g.stash)
        fetched == fetch_repo(g.fetch)
        remote == get_remote_status(g.upstream2, g.revlist)
    IN  IF branch.raised THEN Ok(ErrorInfo(repo_path, branch))
        ELSE IF status.raised THEN Ok(ErrorInfo(repo_path, status))
        ELSE IF has_remote.raised THEN Ok(ErrorInfo(repo_path, has_remote))
        ELSE IF repo_has_stash.raised THEN Ok(ErrorInfo(repo_path, repo_has_stash))
        ELSE IF has_remote.value /\ fetched.raised THEN fetched
        ELSE IF remote.raised THEN Ok(ErrorInfo(repo_path, remote))
        ELSE LET ahead == remote.value[1]
                 behind == remote.value[2]
                 final_status == determine_remote_status(ahead, behind, status.value[1])
                 is_main == is_main_branch(branch.value, config.main_branches)
                 warnings == detect_warnings(branch.value, status.value[1], is_main,
                                             has_remote.value, repo_has_stash.value)
             IN  Ok(RepoInfo(repo_path, branch.value, final_status, is_main, ahead, behind,
                             status.value[2], status.value[3], repo_has_stash.value,
                             warnings, None))

\* g holds what each git command of the sequence does when it is issued;
\* a command the sequence does not reach is not issued.
analyze_repo(repo_path, g, config) ==
    LET branch == get_current_branch(g.branch)
        status == get_repo_status(g.status)
        has_remote == has_upstream(g.upstream)
        repo_has_stash == has_stash(g.stash)
        fetched == fetch_repo(g.fetch)
        remote == get_remote_status(g.upstream2, g.revlist)
    IN  IF branch.raised THEN Ok(ErrorInfo(repo_path, branch))
        ELSE IF status.raised THEN Ok(ErrorInfo(repo_path, status))
        ELSE IF has_remote.raised THEN Ok(ErrorInfo(repo_path, has_remote))
        ELSE IF repo_has_stash.raised THEN Ok(ErrorInfo(repo_path, repo_has_stash))
        ELSE IF has_remote.value /\ fetched.raised THEN Ok(ErrorInfo(repo_path, fetched))
        ELSE IF remote.raised THEN Ok(ErrorInfo(repo_path, remote))
        ELSE LET ahead == remote.value[1]
                 behind == remote.value[2]
                 final_status == determine_remote_status(ahead, behind, status.value[1])
                 is_main == is_main_branch(branch.value, config.main_branches)
                 warnings == detect_warnings(branch.value, status.value[1], is_main,
                                             has_remote.value, repo_has_stash.value)
             IN  Ok(RepoInfo(repo_path, branch.value, final_status, is_main, ahead, behind,
                             status.value[2], status.value[3], repo_has_stash.value,
                             warnings, None))

\* The git commands analyze_repo issues, in order, up to the first that raises
analyze_repo_ops(g) ==
    LET branch == get_current_branch(g.branch)
        status == get_repo_status(g.status)
        has_remote == has_upstream(g.upstream)
        repo_has_stash == has_stash(g.stash)
        fetched == fetch_repo(g.fetch)
    IN  <<Op("rev-parse --abbrev-ref HEAD", ~branch.raised)>> \o
        IF branch.raised THEN <<>> ELSE
        <<Op("status --porcelain", ~status.raised)>> \o
        IF status.raised THEN <<>> ELSE
        <<Op("rev-parse @{upstream}", Succeeded(has_remote))>> \o
        IF has_remote.raised THEN <<>> ELSE
        <<Op("stash list", ~repo_has_stash.raised)>> \o
        IF repo_has_stash.raised THEN <<>> ELSE
        (IF has_remote.value THEN <<Op("fetch", Succeeded(fetched))>> ELSE <<>>) \o
        IF has_remote.value /\ fetched.raised THEN <<>> ELSE
        get_remote_status_ops(g.upstream2, g.revlist)

matches_skip_pattern(path, patterns) == matches_any_pattern(path, patterns)

should_auto_pull_IgnoreClean(repo_info, config) ==
    IF ~config.auto_pull.enabled THEN FALSE
    ELSE IF repo_info.status = "error" THEN FALSE
    ELSE IF repo_info.behind_count = 0 THEN FALSE
    ELSE IF matches_skip_pattern(repo_info.path, config.auto_pull.skip_patterns) THEN FALSE
    ELSE TRUE

should_auto_pull(repo_info, config) ==
    IF ~config.auto_pull.enabled THEN FALSE
    ELSE IF repo_info.status = "error" THEN FALSE
    ELSE IF config.auto_pull.require_clean /\ repo_info.status \notin {"clean", "behind"} THEN FALSE
    ELSE IF repo_info.behind_count = 0 THEN FALSE
    ELSE IF matches_skip_pattern(repo_info.path, config.auto_pull.skip_patterns) THEN FALSE
    ELSE TRUE

\* ------------------------------------------------- what the commands can do
\* Names: /src/lib, /src/app, /exp/api, /src/exp/app, in the order the scanner
\* yields them (the order of iterdir, not the sorted order).
src == <<"s", "r", "c">>
exp == <<"e", "x", "p">>
app == <<"a", "p", "p">>
lib == <<"l", "i", "b">>
api == <<"a", "p", "i">>

AllPaths == << <<src, lib>>, <<src, app>>, <<exp, api>>, <<src, exp, app>> >>

\* skip_patterns: none, "**/exp/*", "lib"
SkipPatternLists ==
    { <<>>, << <<"*", "*", "/", "e", "x", "p", "/", "*">> >>, << lib >> }

BranchNames == {"main", "Main", "feature", "HEAD"}

Statuses == {"clean", "dirty", "untracked", "ahead", "behind", "diverged", "no_remote", "error"}

\* The status columns of a porcelain line: untracked, modified in the work
\* tree, modified in the index.
Markers == { <<"?", "?">>, <<" ", "M">>, <<"M", " ">> }

Listings == UNION { [1..n -> Markers] : n \in 0..MaxLines }

\* A command the sequence never issues
NotIssued == [kind |-> "none", returncode |-> 0, stdout |-> <<>>]

Failures == {TimeoutExpired, OSError}

BranchProcs == {Exit(0, <<b>>) : b \in BranchNames} \cup {Exit(128, <<>>)} \cup Failures

StatusProcs == {Exit(0, l) : l \in Listings} \cup {Exit(128, <<>>)} \cup Failures

\* `git rev-parse @{upstream}` exits 0 only if the branch has an upstream
UpstreamProcs(configured) ==
    (IF configured THEN {Exit(0, <<"origin/main">>)} ELSE {}) \cup {Exit(128, <<>>)} \cup Failures

StashProcs == {Exit(0, <<>>), Exit(0, <<"stash@{0}">>), Exit(1, <<>>)} \cup Failures

FetchProcs == {Exit(0, <<>>), Exit(1, <<>>)} \cup Failures

\* "<behind>\t<ahead>", or output that does not parse
RevlistProcs ==
    {Exit(0, <<Number(b), Number(a)>>) : a \in 0..MaxCount, b \in 0..MaxCount}
    \cup {Exit(0, <<Word>>), Exit(0, <<Word, Word>>), Exit(0, <<Number(1), Word>>)}
    \cup {Exit(128, <<>>)} \cup Failures

Raises(result) == result.raised

\* The commands one analyze_repo issues, each with what it does: a command is
\* issued only if no earlier one raised, the fetch only if the first upstream
\* check found one, rev-list only if the second did.
GatewayRunsOver(configured, B, S, U, St, F, R) ==
    UNION {UNION {UNION {UNION {UNION {UNION {
        { [configured |-> configured, branch |-> b, status |-> s, upstream |-> u,
           stash |-> st, fetch |-> f, upstream2 |-> u2, revlist |-> r] :
          r \in IF u2 = NotIssued \/ Raises(has_upstream(u2)) \/ ~has_upstream(u2).value
                THEN {NotIssued} ELSE R }
        : u2 \in IF st = NotIssued \/ Raises(has_stash(st)) THEN {NotIssued}
                 ELSE IF f # NotIssued /\ Raises(fetch_repo(f)) THEN {NotIssued}
                 ELSE U }
        : f \in IF st = NotIssued \/ Raises(has_stash(st)) \/ ~has_upstream(u).value
                THEN {NotIssued} ELSE F }
        : st \in IF u = NotIssued \/ Raises(has_upstream(u)) THEN {NotIssued} ELSE St }
        : u \in IF s = NotIssued \/ Raises(get_repo_status(s)) THEN {NotIssued} ELSE U }
        : s \in IF Raises(get_current_branch(b)) THEN {NotIssued} ELSE S }
        : b \in B }

GatewayRunsOf(configured) ==
    GatewayRunsOver(configured, BranchProcs, StatusProcs, UpstreamProcs(configured),
                    StashProcs, FetchProcs, RevlistProcs)

GatewayRuns == GatewayRunsOf(TRUE) \cup GatewayRunsOf(FALSE)

DefaultConfig ==
    [main_branches |-> <<"main", "master">>,
     auto_pull |-> [enabled |-> TRUE, require_clean |-> TRUE, skip_patterns |-> <<>>]]

AutoPullConfigs ==
    [enabled : BOOLEAN, require_clean : BOOLEAN, skip_patterns : SkipPatternLists]

Configs == {[main_branches |-> <<"main", "master">>, auto_pull |-> a] : a \in AutoPullConfigs}

\* ------------------------------------------------------------------ state
VARIABLES
    call,           \* the function under evaluation and its arguments
    ret,            \* its result, once it has returned
    pc,             \* where the main thread of scan_and_analyze / sync_all stands
    repo_paths,     \* scan_and_analyze: the paths the scanner yielded
    task,           \* the executor's tasks: "queued", "running" or "done"
    repos,          \* scan_and_analyze: the snapshots collected
    idx,            \* scan_and_analyze: position of the auto-pull loop in repos
    pulling,        \* paths with a pull in progress
    pull_results,   \* scan_and_analyze: the PullResults collected
    pull_log,       \* history: the paths pull was invoked on, in order
    configured,     \* history: the analysed paths whose branch has an upstream
    results,        \* sync_all: the SyncRepoResults collected
    counters,       \* sync_all: cloned, pulled, skipped, errors
    ops,            \* history: the git commands and filesystem operations performed
    root,           \* find_git_repos: position in scan_paths
    stack,          \* find_git_repos: the active scan_directory calls, innermost last
    visited,        \* find_git_repos: inode numbers of the directories entered
    disk            \* sync: the directories, the repositories and those behind

vars == <<call, ret, pc, repo_paths, task, repos, idx, pulling, pull_results, pull_log,
          configured, results, counters, ops, root, stack, visited, disk>>

scan_vars == <<repo_paths, repos, idx, pulling, pull_results, pull_log, configured>>
sync_vars == <<results, counters>>
walk_vars == <<root, stack, visited>>

NoCall == [fn |-> "none"]

\* The part of the filesystem sync works on: the directories that exist, as
\* paths, those among them that hold a .git directory, and those of the
\* repositories that are behind their upstream.
Disk(dirs, git, behind) == [dirs |-> dirs, git |-> git, behind |-> behind]
NoDisk == Disk({}, {}, {})
Pending == [done |-> FALSE]
Returned(v) == [done |-> TRUE, value |-> v]

ZeroCounters == [cloned |-> 0, pulled |-> 0, skipped |-> 0, errors |-> 0]

\* No scan and no sync is running: a single function is evaluated.
NoRun ==
    /\ pc = "idle" /\ repo_paths = <<>> /\ task = <<>> /\ repos = <<>> /\ idx = 0
    /\ pulling = {} /\ pull_results = <<>> /\ pull_log = <<>> /\ configured = {}
    /\ results = <<>> /\ counters = ZeroCounters /\ ops = <<>>
    /\ root = 0 /\ stack = <<>> /\ visited = {}
    /\ disk = NoDisk

\* ------------------------------------------- the status resolver, evaluated
\* get_repo_status on what `git status --porcelain` does, then
\* determine_remote_status on the ahead/behind counts.
resolve(proc, ahead, behind) ==
    LET base == get_repo_status(proc) IN
    IF base.raised THEN base
    ELSE Ok([base_status |-> base.value[1], changed |-> base.value[2],
             untracked |-> base.value[3],
             status |-> determine_remote_status(ahead, behind, base.value[1])])

InitStatus ==
    /\ call \in {[fn |-> "resolve", proc |-> p, ahead |-> a, behind |-> b] :
                    p \in StatusProcs, a \in 0..MaxCount, b \in 0..MaxCount}
    /\ ret = Pending
    /\ NoRun

ResolveStatus ==
    /\ call.fn = "resolve"
    /\ ~ret.done
    /\ ret' = Returned(resolve(call.proc, call.ahead, call.behind))
    /\ UNCHANGED <<call, disk, pc, task, scan_vars, sync_vars, ops, walk_vars>>

NextStatus == ResolveStatus

SpecStatus == InitStatus /\ [][NextStatus]_vars

\* ---------------------------------------------- should_auto_pull, evaluated
\* Snapshots as analyze_repo can build them, over every status.
PolicySnapshots ==
    {RepoInfo(AllPaths[p], branch, status, branch = "main", ahead, behind, changed, 0,
              FALSE, <<>>, IF status = "error" THEN "Command timed out" ELSE None) :
        p \in 1..3, branch \in {"main", "feature"}, status \in Statuses,
        ahead \in 0..MaxCount, behind \in 0..MaxCount, changed \in 0..1}

InitPolicy ==
    /\ call \in {[fn |-> "should_auto_pull", repo_info |-> r, config |-> c] :
                    r \in PolicySnapshots, c \in Configs}
    /\ ret = Pending
    /\ NoRun

EvalShouldAutoPull ==
    /\ call.fn = "should_auto_pull"
    /\ ~ret.done
    /\ ret' = Returned(should_auto_pull(call.repo_info, call.config))
    /\ UNCHANGED <<call, disk, pc, task, scan_vars, sync_vars, ops, walk_vars>>

NextPolicy == EvalShouldAutoPull

SpecPolicy == InitPolicy /\ [][NextPolicy]_vars

\* ----------------------------------------------- detect_warnings, evaluated
MainBranchLists == {<<"main", "master">>, <<"Main">>, <<"main", "head">>}

\* The warnings of a branch in a given state, with is_main computed as
\* analyze_repo computes it (lines 42-43).
InitWarnings ==
    /\ call \in {[fn |-> "detect_warnings", branch |-> b, status |-> st, main_branches |-> mb,
                  has_remote |-> hr, has_stash |-> hs] :
                    b \in BranchNames, st \in Statuses, mb \in MainBranchLists,
                    hr \in BOOLEAN, hs \in BOOLEAN}
    /\ ret = Pending
    /\ NoRun

EvalDetectWarnings ==
    /\ call.fn = "detect_warnings"
    /\ ~ret.done
    /\ ret' = Returned(detect_warnings(call.branch, call.status,
                                       is_main_branch(call.branch, call.main_branches),
                                       call.has_remote, call.has_stash))
    /\ UNCHANGED <<call, disk, pc, task, scan_vars, sync_vars, ops, walk_vars>>

SpecWarnings == InitWarnings /\ [][EvalDetectWarnings]_vars

\* -------------------------------------------------- analyze_repo, evaluated
InitAnalyze ==
    /\ call \in {[fn |-> "analyze_repo", repo_path |-> AllPaths[1], g |-> g,
                  config |-> DefaultConfig] : g \in GatewayRuns}
    /\ ret = Pending
    /\ NoRun

Analyze ==
    /\ call.fn = "analyze_repo"
    /\ ~ret.done
    /\ ret' = Returned(analyze_repo(call.repo_path, call.g, call.config))
    /\ ops' = analyze_repo_ops(call.g)
    /\ UNCHANGED <<call, disk, pc, task, scan_vars, sync_vars, walk_vars>>

NextAnalyze == Analyze

SpecAnalyze == InitAnalyze /\ [][NextAnalyze]_vars

\* ------------------------------------------- get_remote_status, evaluated
\* What the upstream check and rev-list do if they are issued
InitRemote ==
    /\ call \in {[fn |-> "get_remote_status", repo_path |-> AllPaths[1], upstream_proc |-> u,
                  revlist_proc |-> r] : u \in UpstreamProcs(TRUE), r \in RevlistProcs}
    /\ ret = Pending
    /\ NoRun

EvalRemote ==
    /\ call.fn = "get_remote_status"
    /\ ~ret.done
    /\ ret' = Returned(get_remote_status(call.upstream_proc, call.revlist_proc))
    /\ ops' = get_remote_status_ops(call.upstream_proc, call.revlist_proc)
    /\ UNCHANGED <<call, disk, pc, task, scan_vars, sync_vars, walk_vars>>

\* get_remote_status on its own and as analyze_repo calls it
NextRemote == EvalRemote \/ Analyze

SpecRemote == (InitRemote \/ InitAnalyze) /\ [][NextRemote]_vars

\* --------------------------------------------------------- scan_and_analyze
\* The list left in the order it was collected in
SortByPath_AsCollected(seq, keys) == seq

\* list.sort(key=path): the stable sort, element k going to the place after
\* every element that sorts before it.
SortByPath(seq, keys) ==
    LET n == Len(seq)
        Before(j, k) == PathLess(PathParts(keys[j]), PathParts(keys[k]))
                        \/ (~PathLess(PathParts(keys[k]), PathParts(keys[j])) /\ j < k)
        place(k) == 1 + Cardinality({j \in 1..n : j # k /\ Before(j, k)})
    IN  [q \in 1..n |-> seq[CHOOSE k \in 1..n : place(k) = q]]

\* `git pull --ff-only` also reports on stderr; its stdout either says
\* "Already up to date." or summarises the files changed.
PullExit(returncode, stdout, stderr) ==
    [kind |-> "exit", returncode |-> returncode, stdout |-> stdout, stderr |-> stderr]

PullOutput(up_to_date, summary, files) ==
    [up_to_date |-> up_to_date, summary |-> summary, files |-> files]

NoOutput == PullOutput(FALSE, FALSE, 0)

PullProcs ==
    {PullExit(0, PullOutput(TRUE, FALSE, 0), "")}
    \cup {PullExit(0, PullOutput(FALSE, TRUE, n), "") : n \in 1..MaxCount}
    \cup {PullExit(1, NoOutput, "fatal: Not possible to fast-forward"), PullExit(1, NoOutput, "")}
    \cup {[kind |-> "timeout", returncode |-> 0, stdout |-> NoOutput, stderr |-> ""],
          [kind |-> "oserror", returncode |-> 0, stdout |-> NoOutput, stderr |-> ""]}

\* The analyses a scan draws from: branch main and no stash; a work tree that
\* is clean or holds one modified or one untracked file; the two upstream
\* checks agreeing; ahead and behind each 0 or MaxCount; and, as failures, the
\* branch query timing out and the status command exiting non-zero.
ScanRunsOf(has_remote) ==
    GatewayRunsOver(has_remote,
        {Exit(0, <<"main">>), TimeoutExpired},
        {Exit(0, l) : l \in {<<>>, << <<" ", "M">> >>, << <<"?", "?">> >>}} \cup {Exit(128, <<>>)},
        IF has_remote THEN {Exit(0, <<"origin/main">>)} ELSE {Exit(128, <<>>)},
        {Exit(0, <<>>)},
        {Exit(0, <<>>)},
        {Exit(0, <<Number(b), Number(a)>>) : a \in {0, MaxCount}, b \in {0, MaxCount}})

ScanRuns == ScanRunsOf(TRUE) \cup ScanRunsOf(FALSE)

ScanCall(config, auto_pull, max_workers) ==
    [fn |-> "scan_and_analyze", config |-> config, auto_pull |-> auto_pull,
     max_workers |-> max_workers]

\* The default call, and the calls that differ from it in one argument.
ScanCalls ==
    {x \in {ScanCall(c, a, w) : c \in Configs, a \in BOOLEAN, w \in {1, MaxWorkers}} :
        Cardinality({f \in {"enabled", "require_clean", "skip_patterns"} :
                        x.config.auto_pull[f] # DefaultConfig.auto_pull[f]})
          + (IF x.auto_pull THEN 0 ELSE 1)
          + (IF x.max_workers = MaxWorkers THEN 0 ELSE 1) <= 1}

\* The state after the tasks are submitted to the executor (lines 176-193).
InitScan ==
    /\ call \in ScanCalls
    /\ ret = Pending
    /\ pc = "analyze"
    /\ repo_paths = SubSeq(AllPaths, 1, NumRepos)
    /\ task = [k \in 1..NumRepos |-> "queued"]
    /\ repos = <<>> /\ idx = 0 /\ pulling = {} /\ pull_results = <<>>
    /\ pull_log = <<>> /\ configured = {}
    /\ results = <<>> /\ counters = ZeroCounters /\ ops = <<>>
    /\ root = 0 /\ stack = <<>> /\ visited = {}
    /\ disk = NoDisk

Running == {k \in DOMAIN task : task[k] = "running"}

\* A pool in which a thread that finished its task takes no other
SlotFree_NeverReleased ==
    Cardinality({k \in DOMAIN task : task[k] \in {"running", "done"}}) < call.max_workers

\* ThreadPoolExecutor(max_workers): a thread of the pool is idle
SlotFree == Cardinality(Running) < call.max_workers

\* as_completed that ends with the first future
AllCollected_FirstDone == \E k \in DOMAIN task : task[k] = "done"

\* as_completed has handed over every future (lines 195-197)
AllCollected == \A k \in DOMAIN task : task[k] = "done"

\* A pool thread takes a queued analyze_repo task.
StartAnalysis(k) ==
    /\ call.fn = "scan_and_analyze" /\ pc = "analyze"
    /\ task[k] = "queued"
    /\ SlotFree
    /\ task' = [task EXCEPT ![k] = "running"]
    /\ UNCHANGED <<call, disk, ret, pc, scan_vars, sync_vars, ops, walk_vars>>

\* analyze_repo returns in its thread; as_completed hands the future to the
\* main thread, which appends future.result() to repos.
FinishAnalysis(k) ==
    /\ call.fn = "scan_and_analyze" /\ pc = "analyze"
    /\ task[k] = "running"
    /\ \E g \in ScanRuns :
          LET result == analyze_repo(repo_paths[k], g, call.config) IN
          /\ task' = [task EXCEPT ![k] = "done"]
          /\ IF result.raised
             THEN /\ ret' = Returned(result) /\ pc' = "raised"
                  /\ UNCHANGED <<repos, configured>>
             ELSE /\ repos' = Append(repos, result.value)
                  /\ configured' = IF g.configured THEN configured \cup {repo_paths[k]}
                                   ELSE configured
                  /\ UNCHANGED <<ret, pc>>
    /\ UNCHANGED <<call, disk, repo_paths, idx, pulling, pull_results, pull_log, sync_vars, ops, walk_vars>>

\* Every future is collected, the executor shuts down, repos.sort (line 200).
SortRepos ==
    /\ call.fn = "scan_and_analyze" /\ pc = "analyze"
    /\ AllCollected
    /\ repos' = SortByPath(repos, [q \in 1..Len(repos) |-> repos[q].path])
    /\ idx' = 1
    /\ pc' = IF call.auto_pull THEN "auto_pull" ELSE "return"
    /\ UNCHANGED <<call, disk, ret, task, repo_paths, pulling, pull_results, pull_log, configured,
                   sync_vars, ops, walk_vars>>

\* One turn of the loop of lines 204-206: the snapshot is passed over, or
\* pull_repo is called on its path.
AutoPullVisit ==
    /\ call.fn = "scan_and_analyze" /\ pc = "auto_pull"
    /\ idx <= Len(repos)
    /\ IF should_auto_pull(repos[idx], call.config)
       THEN /\ pulling' = pulling \cup {repos[idx].path}
            /\ pull_log' = Append(pull_log, repos[idx].path)
            /\ pc' = "pulling"
            /\ UNCHANGED idx
       ELSE /\ idx' = idx + 1
            /\ UNCHANGED <<pulling, pull_log, pc>>
    /\ UNCHANGED <<call, disk, ret, task, repo_paths, repos, pull_results, configured, sync_vars, ops, walk_vars>>

\* pull_repo comes back (lines 206-211): its GitError is not caught and leaves
\* scan_and_analyze; its PullResult is appended and a success is written to
\* the snapshot.
PullReturns ==
    /\ call.fn = "scan_and_analyze" /\ pc = "pulling"
    /\ \E proc \in PullProcs :
          LET result == pull_repo(repos[idx].path, proc) IN
          /\ pulling' = pulling \ {repos[idx].path}
          /\ IF result.raised
             THEN /\ ret' = Returned(result) /\ pc' = "raised"
                  /\ UNCHANGED <<pull_results, repos, idx>>
             ELSE /\ pull_results' = Append(pull_results, result.value)
                  /\ repos' = IF result.value.success
                              THEN [repos EXCEPT ![idx].status = "clean",
                                                 ![idx].behind_count = 0]
                              ELSE repos
                  /\ idx' = idx + 1
                  /\ pc' = "auto_pull"
                  /\ UNCHANGED ret
    /\ UNCHANGED <<call, disk, task, repo_paths, pull_log, configured, sync_vars, ops, walk_vars>>

ScanResult(rs, prs) ==
    [repos |-> rs, pull_results |-> prs, total_scanned |-> Len(rs), scan_errors |-> <<>>]

\* return ScanResult(...) (lines 213-218)
ReturnScan ==
    /\ call.fn = "scan_and_analyze"
    /\ \/ pc = "return"
       \/ pc = "auto_pull" /\ idx > Len(repos)
    /\ ret' = Returned(Ok(ScanResult(repos, pull_results)))
    /\ pc' = "done"
    /\ UNCHANGED <<call, disk, task, scan_vars, sync_vars, ops, walk_vars>>

\* ----------------------------------------------------------------- sync.py
TrackedRepo(path, remote, branch, ignore) ==
    [path |-> path, remote |-> remote, branch |-> branch, ignore |-> ignore]

SyncRepoResult(repo, action, message) == [repo |-> repo, action |-> action, message |-> message]

\* Entries over two paths; two entries may name the same path.
TrackedRepos ==
    {TrackedRepo(AllPaths[p], "git@host:repo.git", b, i) :
        p \in 1..2, b \in {"main", "dev"}, i \in BOOLEAN}

\* str.split() on the messages git_ops produces in this model
Words(text) ==
    CASE text = "Command timed out" -> <<"Command", "timed", "out">>
      [] text = "Failed to run git" -> <<"Failed", "to", "run", "git">>
      [] text = "fatal: Not possible to fast-forward" ->
            <<"fatal:", "Not", "possible", "to", "fast-forward">>
      [] text = "Pull failed" -> <<"Pull", "failed">>
      [] OTHER -> <<text>>

\* str(n) for the file counts of the model
Numeral(n) ==
    CASE n = 0 -> "0" [] n = 1 -> "1" [] n = 2 -> "2" [] n = 3 -> "3" [] OTHER -> "n"

\* extract_git_error on a one-line message, as its words: the text after a
\* leading "fatal:" or "error:", else the line itself.
extract_git_error(message) ==
    IF message # <<>> /\ Head(message) \in {"fatal:", "error:"} THEN Tail(message) ELSE message

is_branch_not_found_error_NotFound(message) ==
    LET lower_msg == [i \in DOMAIN message |-> Lower(message[i])] IN
    Contains(lower_msg, <<"not", "found">>)

is_branch_not_found_error(message) ==
    LET lower_msg == [i \in DOMAIN message |-> Lower(message[i])] IN
    Contains(lower_msg, <<"remote", "branch">>) /\ Contains(lower_msg, <<"not", "found">>)

\* What `git clone` does: it exits with a return code and its stderr, the
\* timeout expires, or it cannot be launched.
CloneExit(returncode, stderr) ==
    [kind |-> "exit", returncode |-> returncode, stdout |-> <<>>, stderr |-> stderr]

BranchNotFound == <<"fatal:", "Remote", "branch", "dev", "not", "found", "in", "upstream", "origin">>
RepositoryNotFound == <<"fatal:", "repository", "not", "found">>
RemoteBranchRefused == <<"error:", "cannot", "lock", "remote", "branch">>
Unreachable == <<"fatal:", "unable", "to", "access", "remote">>

CloneErrors == {BranchNotFound, RepositoryNotFound, RemoteBranchRefused, Unreachable}

CloneProcs ==
    {CloneExit(0, <<>>)} \cup {CloneExit(128, m) : m \in CloneErrors}
    \cup {[kind |-> "timeout", returncode |-> 0, stdout |-> <<>>, stderr |-> <<>>],
          [kind |-> "oserror", returncode |-> 0, stdout |-> <<>>, stderr |-> <<>>]}

\* git_ops.clone_repo(remote, path, branch): the gateway's clone, which
\* returns a PullResult carrying git's message, or raises GitError as every
\* gateway command does.
git_ops_clone_repo(remote, path, branch, proc) ==
    LET result == run_git_command(proc) IN
    IF result.raised THEN result
    ELSE Ok(PullResult(path, result.value.returncode = 0, result.value.stderr, 0))

\* What one sync_repo call meets: whether the path and its .git exist, what
\* each git command does if issued, whether mkdir and rmtree succeed, and
\* whether a failed clone leaves the destination behind.
SyncEnv(exists, git_dir, fetch, upstream, revlist, pull, mkdir, clone, partial, rmtree, retry) ==
    [exists |-> exists, git_dir |-> git_dir, fetch |-> fetch, upstream |-> upstream,
     revlist |-> revlist, pull |-> pull, mkdir |-> mkdir, clone |-> clone,
     partial |-> partial, rmtree |-> rmtree, retry |-> retry]

Uncaught(exc) == [raised |-> TRUE, message |-> exc]

Outcome(result, trace) == [result |-> result, ops |-> trace]

\* sync.clone_repo (lines 344-401)
clone_repo(repo, env) ==
    LET mkdir == <<Op("mkdir", env.mkdir)>> IN
    IF ~env.mkdir THEN Outcome(Uncaught("OSError"), mkdir)
    ELSE
    LET result == git_ops_clone_repo(repo.remote, repo.path, repo.branch, env.clone)
        first == mkdir \o <<Op("clone --branch", ~result.raised /\ result.value.success)>>
    IN
    IF result.raised
    THEN Outcome(Ok(SyncRepoResult(repo, "error", extract_git_error(Words(result.message)))),
                 first)
    ELSE IF result.value.success
    THEN Outcome(Ok(SyncRepoResult(repo, "cloned", <<"Cloned", repo.branch>>)), first)
    ELSE
    LET error_msg == extract_git_error(result.value.message) IN
    IF is_branch_not_found_error(result.value.message)
    THEN
        LET cleanup == <<Op("path.exists", env.partial)>>
                       \o (IF env.partial THEN <<Op("rmtree", env.rmtree)>> ELSE <<>>)
        IN
        IF env.partial /\ ~env.rmtree
        THEN Outcome(Uncaught("OSError"), first \o cleanup)
        ELSE
        LET fallback_result == git_ops_clone_repo(repo.remote, repo.path, "", env.retry)
            second == first \o cleanup
                      \o <<Op("clone", ~fallback_result.raised /\ fallback_result.value.success)>>
        IN
        IF fallback_result.raised
        THEN Outcome(Ok(SyncRepoResult(repo, "error",
                                       extract_git_error(Words(fallback_result.message)))),
                     second)
        ELSE IF fallback_result.value.success
        THEN Outcome(Ok(SyncRepoResult(repo, "cloned",
                            <<"Cloned", "default", "branch", "wanted:", repo.branch>>)),
                     second)
        ELSE Outcome(Ok(SyncRepoResult(repo, "error",
                                       extract_git_error(fallback_result.value.message))),
                     second)
    ELSE Outcome(Ok(SyncRepoResult(repo, "error", error_msg)), first)

\* handle_existing_repo (lines 274-328)
handle_existing_repo(repo, pull_existing, env) ==
    LET git_dir == <<Op(".git exists", env.git_dir)>> IN
    IF ~env.git_dir
    THEN Outcome(Ok(SyncRepoResult(repo, "error",
                        <<"Path", "exists", "but", "is", "not", "a", "git", "repo">>)),
                 git_dir)
    ELSE IF ~pull_existing
    THEN Outcome(Ok(SyncRepoResult(repo, "skipped", <<"Already", "exists">>)), git_dir)
    ELSE
    LET fetched == fetch_repo(env.fetch)
        fetch == git_dir \o <<Op("fetch", Succeeded(fetched))>>
    IN
    IF fetched.raised
    THEN Outcome(Ok(SyncRepoResult(repo, "error", extract_git_error(Words(fetched.message)))),
                 fetch)
    ELSE
    LET remote == get_remote_status(env.upstream, env.revlist)
        asked == fetch \o get_remote_status_ops(env.upstream, env.revlist)
    IN
    IF remote.raised
    THEN Outcome(Ok(SyncRepoResult(repo, "error", extract_git_error(Words(remote.message)))),
                 asked)
    ELSE IF remote.value[2] = 0
    THEN Outcome(Ok(SyncRepoResult(repo, "skipped", <<"Already", "up", "to", "date">>)), asked)
    ELSE
    LET result == pull_repo(repo.path, env.pull)
        pulled == asked \o <<Op("pull", ~result.raised /\ result.value.success)>>
    IN
    IF result.raised
    THEN Outcome(Ok(SyncRepoResult(repo, "error", extract_git_error(Words(result.message)))),
                 pulled)
    ELSE IF result.value.success
    THEN Outcome(Ok(SyncRepoResult(repo, "pulled",
                        <<"Pulled", Numeral(result.value.files_changed), "files">>)),
                 pulled)
    ELSE Outcome(Ok(SyncRepoResult(repo, "error",
                        <<"Pull", "failed:">> \o extract_git_error(Words(result.value.message)))),
                 pulled)

\* sync_repo (lines 256-271)
sync_repo(repo, pull_existing, env) ==
    LET out == IF env.exists
               THEN handle_existing_repo(repo, pull_existing, env)
               ELSE clone_repo(repo, env)
    IN Outcome(out.result, <<Op("path.exists", env.exists)>> \o out.ops)

\* Environments of an existing path: every git command varies.
ExistingEnvs ==
    {SyncEnv(TRUE, g, f, u, r, p, TRUE, CloneExit(0, <<>>), FALSE, TRUE, CloneExit(0, <<>>)) :
        g \in BOOLEAN, f \in FetchProcs, u \in UpstreamProcs(TRUE), r \in RevlistProcs,
        p \in PullProcs}

\* Environments of a missing path: mkdir, both clones and the cleanup vary.
MissingEnvs ==
    {SyncEnv(FALSE, FALSE, Exit(0, <<>>), Exit(128, <<>>), Exit(128, <<>>),
             PullExit(0, PullOutput(TRUE, FALSE, 0), ""), m, c, pa, rm, c2) :
        m \in BOOLEAN, c \in CloneProcs, pa \in BOOLEAN, rm \in BOOLEAN, c2 \in CloneProcs}

SyncEnvs == ExistingEnvs \cup MissingEnvs

\* ------------------------------------------------------ sync_repo, evaluated
InitSyncRepo ==
    /\ call \in {[fn |-> "sync_repo", repo |-> TrackedRepo(AllPaths[1], "git@host:repo.git", b, FALSE),
                  pull_existing |-> pe, env |-> e] :
                    b \in {"main", "dev"}, pe \in BOOLEAN, e \in SyncEnvs}
    /\ ret = Pending
    /\ NoRun

EvalSyncRepo ==
    /\ call.fn = "sync_repo"
    /\ ~ret.done
    /\ LET out == sync_repo(call.repo, call.pull_existing, call.env) IN
       /\ ret' = Returned(out.result)
       /\ ops' = out.ops
    /\ UNCHANGED <<call, disk, pc, task, scan_vars, sync_vars, walk_vars>>

SpecSyncRepo == InitSyncRepo /\ [][EvalSyncRepo]_vars

SyncCalls ==
    {[fn |-> "sync_all", repos |-> rs, pull_existing |-> pe, max_workers |-> MaxWorkers] :
        rs \in [1..NumTracked -> TrackedRepos], pe \in BOOLEAN}

InitSync ==
    /\ call \in SyncCalls
    /\ ret = Pending
    /\ pc = "partition"
    /\ task = <<>>
    /\ results = <<>> /\ counters = ZeroCounters /\ ops = <<>>
    /\ root = 0 /\ stack = <<>> /\ visited = {}
    /\ disk = NoDisk
    /\ repo_paths = <<>> /\ repos = <<>> /\ idx = 0 /\ pulling = {} /\ pull_results = <<>>
    /\ pull_log = <<>> /\ configured = {}

\* The partition that resolves no entry at once
IgnoredOf_None(rs) == <<>>

\* The entries of a list that are ignored, in list order
RECURSIVE IgnoredOf(_)
IgnoredOf(rs) ==
    IF rs = <<>> THEN <<>>
    ELSE (IF Head(rs).ignore THEN <<Head(rs)>> ELSE <<>>) \o IgnoredOf(Tail(rs))

\* Lines 424-444: ignored entries are resolved at once, the others are
\* submitted to the executor.
PartitionIgnored ==
    /\ call.fn = "sync_all" /\ pc = "partition"
    /\ LET ignored == IgnoredOf(call.repos) IN
       /\ results' = [q \in 1..Len(ignored) |-> SyncRepoResult(ignored[q], "skipped", <<"Ignored">>)]
       /\ counters' = [counters EXCEPT !.skipped = Len(ignored)]
    /\ task' = [k \in 1..Len(call.repos) |->
                   IF call.repos[k].ignore THEN "ignored" ELSE "queued"]
    /\ pc' = "sync"
    /\ UNCHANGED <<call, disk, ret, scan_vars, ops, walk_vars>>

\* A pool thread takes a queued sync_repo task.
StartSync(k) ==
    /\ call.fn = "sync_all" /\ pc \in {"sync", "unwinding"}
    /\ task[k] = "queued"
    /\ SlotFree
    /\ task' = [task EXCEPT ![k] = "running"]
    /\ UNCHANGED <<call, disk, ret, pc, scan_vars, sync_vars, ops, walk_vars>>

\* The tally in which an error is not told from a skip
Count_ErrorAsSkipped(action) ==
    CASE action = "cloned" -> "cloned"
      [] action = "pulled" -> "pulled"
      [] OTHER -> "skipped"

Count(action) ==
    CASE action = "cloned" -> "cloned"
      [] action = "pulled" -> "pulled"
      [] action = "skipped" -> "skipped"
      [] OTHER -> "errors"

\* What the entries of a sync_all run meet: a missing path that clones, or
\* whose parent cannot be created; a path that is no repository; a repository
\* that is up to date, one that is behind and pulls, one whose fetch times out.
PoolEnvs ==
    {SyncEnv(FALSE, FALSE, Exit(0, <<>>), Exit(128, <<>>), Exit(128, <<>>),
             PullExit(0, PullOutput(TRUE, FALSE, 0), ""), m, CloneExit(0, <<>>), FALSE, TRUE,
             CloneExit(0, <<>>)) : m \in BOOLEAN}
    \cup {SyncEnv(TRUE, FALSE, Exit(0, <<>>), Exit(128, <<>>), Exit(128, <<>>),
                  PullExit(0, PullOutput(TRUE, FALSE, 0), ""), TRUE, CloneExit(0, <<>>), FALSE,
                  TRUE, CloneExit(0, <<>>))}
    \cup {SyncEnv(TRUE, TRUE, f, Exit(0, <<"origin/main">>), Exit(0, <<Number(b), Number(0)>>),
                  PullExit(0, PullOutput(FALSE, TRUE, 1), ""), TRUE, CloneExit(0, <<>>), FALSE,
                  TRUE, CloneExit(0, <<>>)) :
             f \in {Exit(0, <<>>), TimeoutExpired}, b \in 0..1}

\* The operations of one sync_repo call, marked with the entry they serve
OpsFor(k, trace) ==
    [i \in 1..Len(trace) |-> [entry |-> k, cmd |-> trace[i].cmd, ok |-> trace[i].ok]]

\* sync_repo returns in its thread; the main thread appends future.result()
\* and counts it (lines 446-457).  If future.result() raises, the main thread
\* leaves the loop; the `with` block then waits for the tasks still queued or
\* running, whose results nobody collects.
FinishSync(k) ==
    /\ call.fn = "sync_all" /\ pc \in {"sync", "unwinding"}
    /\ task[k] = "running"
    /\ \E env \in PoolEnvs :
          LET out == sync_repo(call.repos[k], call.pull_existing, env)
              o == out.result
          IN
          /\ task' = [task EXCEPT ![k] = "done"]
          /\ ops' = ops \o OpsFor(k, out.ops)
          /\ IF pc = "unwinding"
             THEN UNCHANGED <<results, counters, pc>>
             ELSE IF o.raised
             THEN /\ pc' = "unwinding"
                  /\ UNCHANGED <<results, counters>>
             ELSE /\ results' = Append(results, o.value)
                  /\ counters' = [counters EXCEPT ![Count(o.value.action)] = @ + 1]
                  /\ UNCHANGED pc
    /\ UNCHANGED <<call, disk, ret, scan_vars, walk_vars>>

\* ThreadPoolExecutor.__exit__ has waited for every task: the exception of
\* future.result() leaves sync_all.
RaiseSync ==
    /\ call.fn = "sync_all" /\ pc = "unwinding"
    /\ \A k \in DOMAIN task : task[k] \in {"ignored", "done"}
    /\ ret' = Returned(Uncaught("OSError"))
    /\ pc' = "raised"
    /\ UNCHANGED <<call, disk, task, scan_vars, sync_vars, ops, walk_vars>>

SyncResult(rs, c) ==
    [results |-> rs, cloned |-> c.cloned, pulled |-> c.pulled, skipped |-> c.skipped,
     errors |-> c.errors]

\* Every future is collected: results.sort and return (lines 459-468).
ReturnSync ==
    /\ call.fn = "sync_all" /\ pc = "sync"
    /\ \A k \in DOMAIN task : task[k] \in {"ignored", "done"}
    /\ results' = SortByPath(results, [q \in 1..Len(results) |-> results[q].repo.path])
    /\ ret' = Returned(Ok(SyncResult(results', counters)))
    /\ pc' = "done"
    /\ UNCHANGED <<call, disk, task, counters, scan_vars, ops, walk_vars>>

\* ------------------------------------------------------ the two commands
Init == InitScan \/ InitSync

Next ==
    \/ \E k \in 1..NumRepos : StartAnalysis(k)
    \/ \E k \in 1..NumRepos : FinishAnalysis(k)
    \/ SortRepos
    \/ AutoPullVisit
    \/ PullReturns
    \/ ReturnScan
    \/ PartitionIgnored
    \/ \E k \in 1..NumTracked : StartSync(k)
    \/ \E k \in 1..NumTracked : FinishSync(k)
    \/ RaiseSync
    \/ ReturnSync

Spec == Init /\ [][Next]_vars

\* The pool threads and the main thread are scheduled, and every git command
\* returns or runs into its timeout (run_git_command, lines 46-58).
FairSpec == Spec /\ WF_vars(Next)

\* ---------------------------------------- sync_all on a disk, run twice
\* The tracked paths: /src, /src/app beneath it, and /exp.
FleetPaths == {<<src>>, <<src, app>>, <<exp>>}

\* Entries over these paths; the remote has a branch main and no branch dev.
FleetRepos ==
    {TrackedRepo(p, "git@host:repo.git", b, FALSE) : p \in FleetPaths, b \in {"main", "dev"}}

\* Before the first run nothing lies under /src; /exp is absent, a plain
\* directory, a repository that is up to date, or one that is behind.
InitialDisks ==
    {NoDisk, Disk({<<exp>>}, {}, {}), Disk({<<exp>>}, {<<exp>>}, {}),
     Disk({<<exp>>}, {<<exp>>}, {<<exp>>})}

\* repo.path.parent.mkdir(parents=True, exist_ok=True)
MakeParents(d, path) ==
    [d EXCEPT !.dirs = @ \cup {SubSeq(path, 1, n) : n \in 1..(Len(path) - 1)}]

\* shutil.rmtree(path): the directory and everything beneath it
RemoveTree(d, path) ==
    Disk({x \in d.dirs : ~IsPrefix(path, x)}, {x \in d.git : ~IsPrefix(path, x)},
         {x \in d.behind : ~IsPrefix(path, x)})

DestinationExists == <<"fatal:", "destination", "path", "already", "exists">>

\* What `git clone` does on a disk: it refuses a destination that exists and
\* is not empty, fails on a branch the remote does not have and removes what
\* it created, and otherwise leaves a repository at the destination.
GitClone(d, path, branch) ==
    IF path \in d.dirs /\ (path \in d.git \/ \E x \in d.dirs : x # path /\ IsPrefix(path, x))
    THEN CloneExit(128, DestinationExists)
    ELSE IF branch = "dev" THEN CloneExit(128, BranchNotFound)
    ELSE CloneExit(0, <<>>)

Cloned(d, path) == Disk(d.dirs \cup {path}, d.git \cup {path}, d.behind)

\* What a sync_repo call that runs alone meets on a disk
EnvOf(d, repo, fetch) ==
    SyncEnv(repo.path \in d.dirs, repo.path \in d.git, fetch, Exit(0, <<"origin/main">>),
            Exit(0, <<Number(IF repo.path \in d.behind THEN 1 ELSE 0), Number(0)>>),
            PullExit(0, PullOutput(FALSE, TRUE, 1), ""), TRUE,
            GitClone(MakeParents(d, repo.path), repo.path, repo.branch), FALSE, TRUE,
            GitClone(MakeParents(d, repo.path), repo.path, ""))

FleetCalls ==
    {[fn |-> "sync", repos |-> rs, pull_existing |-> pe, fetch |-> f, disk |-> d] :
        rs \in [1..NumTracked -> FleetRepos], pe \in BOOLEAN,
        f \in {Exit(0, <<>>), TimeoutExpired}, d \in InitialDisks}

\* The `sync` command, about to run sync_all for the first time: every entry
\* is submitted (lines 439-444), the pool has a thread for each.
InitFleet ==
    /\ call \in FleetCalls
    /\ ret = Pending
    /\ pc = "sync"
    /\ disk = call.disk
    /\ idx = 1
    /\ task = [k \in 1..NumTracked |-> "queued"]
    /\ results = <<>> /\ counters = ZeroCounters /\ ops = <<>>
    /\ root = 0 /\ stack = <<>> /\ visited = {}
    /\ repo_paths = <<>> /\ repos = <<>> /\ pulling = {} /\ pull_results = <<>>
    /\ pull_log = <<>> /\ configured = {}

FleetOps(k, trace) ==
    [i \in 1..Len(trace) |->
        [entry |-> k, run |-> idx, cmd |-> trace[i].cmd, ok |-> trace[i].ok]]

\* sync_repo, line 268: repo.path.exists()
CheckPath(k) ==
    /\ call.fn = "sync" /\ pc = "sync"
    /\ task[k] = "queued"
    /\ LET exists == call.repos[k].path \in disk.dirs IN
       /\ task' = [task EXCEPT ![k] = IF exists THEN "existing" ELSE "missing"]
       /\ ops' = ops \o FleetOps(k, <<Op("path.exists", exists)>>)
    /\ UNCHANGED <<call, disk, ret, pc, scan_vars, sync_vars, walk_vars>>

\* handle_existing_repo on the disk as it is; a successful pull brings the
\* repository up to date.
HandleExisting(k) ==
    /\ call.fn = "sync" /\ pc = "sync"
    /\ task[k] = "existing"
    /\ LET repo == call.repos[k]
           out == handle_existing_repo(repo, call.pull_existing, EnvOf(disk, repo, call.fetch))
       IN  /\ results' = Append(results, out.result.value)
           /\ ops' = ops \o FleetOps(k, out.ops)
           /\ disk' = IF out.result.value.action = "pulled"
                      THEN [disk EXCEPT !.behind = @ \ {repo.path}]
                      ELSE disk
    /\ task' = [task EXCEPT ![k] = "done"]
    /\ UNCHANGED <<call, ret, pc, scan_vars, counters, walk_vars>>

\* clone_repo, line 359
MakeDirs(k) ==
    /\ call.fn = "sync" /\ pc = "sync"
    /\ task[k] = "missing"
    /\ disk' = MakeParents(disk, call.repos[k].path)
    /\ ops' = ops \o FleetOps(k, <<Op("mkdir", TRUE)>>)
    /\ task' = [task EXCEPT ![k] = "cloning"]
    /\ UNCHANGED <<call, ret, pc, scan_vars, sync_vars, walk_vars>>

\* clone_repo, lines 360-371 and 391-395: the clone of the branch asked for
CloneBranch(k) ==
    /\ call.fn = "sync" /\ pc = "sync"
    /\ task[k] = "cloning"
    /\ LET repo == call.repos[k]
           result == git_ops_clone_repo(repo.remote, repo.path, repo.branch,
                                        GitClone(disk, repo.path, repo.branch)).value
       IN  /\ ops' = ops \o FleetOps(k, <<Op("clone --branch", result.success)>>)
           /\ IF result.success
              THEN /\ disk' = Cloned(disk, repo.path)
                   /\ results' = Append(results,
                                    SyncRepoResult(repo, "cloned", <<"Cloned", repo.branch>>))
                   /\ task' = [task EXCEPT ![k] = "done"]
              ELSE IF is_branch_not_found_error(result.message)
              THEN /\ task' = [task EXCEPT ![k] = "failed"]
                   /\ UNCHANGED <<disk, results>>
              ELSE /\ results' = Append(results,
                                    SyncRepoResult(repo, "error",
                                                   extract_git_error(result.message)))
                   /\ task' = [task EXCEPT ![k] = "done"]
                   /\ UNCHANGED disk
    /\ UNCHANGED <<call, ret, pc, scan_vars, counters, walk_vars>>

\* clone_repo, lines 373-374: what is left of the failed clone is removed
Cleanup(k) ==
    /\ call.fn = "sync" /\ pc = "sync"
    /\ task[k] = "failed"
    /\ LET path == call.repos[k].path
           exists == path \in disk.dirs
       IN  /\ disk' = IF exists THEN RemoveTree(disk, path) ELSE disk
           /\ ops' = ops \o FleetOps(k, <<Op("path.exists", exists)>>
                                         \o (IF exists THEN <<Op("rmtree", TRUE)>> ELSE <<>>))
    /\ task' = [task EXCEPT ![k] = "retrying"]
    /\ UNCHANGED <<call, ret, pc, scan_vars, sync_vars, walk_vars>>

\* clone_repo, lines 377-389: the clone of the default branch
CloneDefault(k) ==
    /\ call.fn = "sync" /\ pc = "sync"
    /\ task[k] = "retrying"
    /\ LET repo == call.repos[k]
           fallback_result == git_ops_clone_repo(repo.remote, repo.path, "",
                                                 GitClone(disk, repo.path, "")).value
       IN  /\ ops' = ops \o FleetOps(k, <<Op("clone", fallback_result.success)>>)
           /\ IF fallback_result.success
              THEN /\ disk' = Cloned(disk, repo.path)
                   /\ results' = Append(results,
                                    SyncRepoResult(repo, "cloned",
                                        <<"Cloned", "default", "branch", "wanted:", repo.branch>>))
              ELSE /\ results' = Append(results,
                                    SyncRepoResult(repo, "error",
                                        extract_git_error(fallback_result.message)))
                   /\ UNCHANGED disk
    /\ task' = [task EXCEPT ![k] = "done"]
    /\ UNCHANGED <<call, ret, pc, scan_vars, counters, walk_vars>>

\* The results of one run, sorted as sync_all returns them (line 460)
RunResults(rs, run) ==
    LET part == SubSeq(rs, (run - 1) * NumTracked + 1, run * NumTracked)
    IN  SortByPath(part, [q \in 1..Len(part) |-> part[q].repo.path])

\* The first sync_all has returned and the command is run again at once.
NextRun ==
    /\ call.fn = "sync" /\ pc = "sync"
    /\ idx = 1 /\ \A k \in DOMAIN task : task[k] = "done"
    /\ results' = RunResults(results, 1)
    /\ idx' = 2
    /\ task' = [k \in 1..NumTracked |-> "queued"]
    /\ UNCHANGED <<call, disk, ret, pc, repo_paths, repos, pulling, pull_results, pull_log,
                   configured, counters, ops, walk_vars>>

\* The second sync_all has returned.
ReturnFleet ==
    /\ call.fn = "sync" /\ pc = "sync"
    /\ idx = 2 /\ \A k \in DOMAIN task : task[k] = "done"
    /\ results' = RunResults(results, 1) \o RunResults(results, 2)
    /\ ret' = Returned(Ok(<<RunResults(results, 1), RunResults(results, 2)>>))
    /\ pc' = "done"
    /\ UNCHANGED <<call, disk, task, scan_vars, counters, ops, walk_vars>>

NextFleet ==
    \/ \E k \in 1..NumTracked :
          \/ CheckPath(k) \/ HandleExisting(k) \/ MakeDirs(k)
          \/ CloneBranch(k) \/ Cleanup(k) \/ CloneDefault(k)
    \/ NextRun
    \/ ReturnFleet

SpecFleet == InitFleet /\ [][NextFleet]_vars

\* ------------------------------------------------- scanner.find_git_repos
\* Largest number of directories of a small tree, "/" included.
MaxDirs == 3

MAX_DEPTH == 20

\* A filesystem: directories are numbered, 1 is "/".  entries[d] is what
\* iterdir lists for d, as <<name, directory>> with 0 for a plain file; a
\* symlink to a directory is an entry that carries the number of its target,
\* since stat and is_dir follow it.  git holds the directories with a .git
\* subdirectory, denied those whose listing raises PermissionError.
\* st_ino[d] is the inode number stat reports for d: on a single device the
\* inode numbers of the directories differ.
FileSystem(entries, git, denied) ==
    [entries |-> entries, git |-> git, denied |-> denied,
     st_ino |-> [d \in DOMAIN entries |-> d]]

\* Directory d is the root of another device mounted there: stat reports the
\* inode number it has on that device.
Mounted(fs, d, ino) == [fs EXCEPT !.st_ino[d] = ino]

DirNames == << <<>>, src, exp, app, api >>
dotx == <<".", "x">>

RECURSIVE ChildEntries(_, _, _, _)
ChildEntries(parent, d, n, last) ==
    IF n > last THEN <<>>
    ELSE (IF parent[n] = d THEN << <<DirNames[n], n>> >> ELSE <<>>)
         \o ChildEntries(parent, d, n + 1, last)

\* The trees over MaxDirs directories: directory n lies in an earlier one,
\* "/" holds a plain file, and the last directory may hold a symlink "lib" to
\* any directory (to itself or an ancestor: a cycle).
SmallFileSystems ==
    {FileSystem([d \in 1..MaxDirs |->
                    (IF d = 1 THEN << <<api, 0>> >> ELSE <<>>)
                    \o ChildEntries(parent, d, 2, MaxDirs)
                    \o (IF d = MaxDirs /\ link # 0 THEN << <<lib, link>> >> ELSE <<>>)],
                git, denied) :
        parent \in {f \in [2..MaxDirs -> 1..MaxDirs] : \A n \in 2..MaxDirs : f[n] < n},
        git \in SUBSET (2..MaxDirs),
        link \in 0..MaxDirs,
        denied \in {{}, {2}}}

\* A chain /src/src/... with a repository `bottom` levels below "/", a hidden
\* directory in "/" and, possibly, a symlink from the repository's parent
\* back to "/".
DeepFileSystem(bottom, cyclic) ==
    FileSystem([d \in 1..(bottom + 1) |->
                   (IF d = 1 THEN << <<dotx, bottom + 1>> >> ELSE <<>>)
                   \o (IF d <= bottom THEN << <<src, d + 1>> >> ELSE <<>>)
                   \o (IF d = bottom /\ cyclic THEN << <<lib, 1>> >> ELSE <<>>)],
               {bottom + 1}, {})

DeepFileSystems == {DeepFileSystem(b, c) : b \in {MAX_DEPTH, MAX_DEPTH + 1}, c \in BOOLEAN}

\* The small trees whose last directory is a mounted device, with the inode
\* number of its root equal to that of an earlier directory.
MountedFileSystems ==
    {Mounted(fs, MaxDirs, ino) : fs \in SmallFileSystems, ino \in 1..(MaxDirs - 1)}

\* The inode a path leads to from directory d: 0 if it does not exist or is
\* a plain file.
RECURSIVE Resolve(_, _, _)
Resolve(fs, d, path) ==
    IF path = <<>> THEN d
    ELSE LET hits == {k \in 1..Len(fs.entries[d]) : fs.entries[d][k][1] = Head(path)}
         IN  IF hits = {} THEN 0
             ELSE LET t == fs.entries[d][CHOOSE k \in hits : TRUE][2]
                  IN  IF t = 0 THEN 0 ELSE Resolve(fs, t, Tail(path))

\* should_exclude without the test of the explicit set
should_exclude_PatternsOnly(path, exclude_patterns, exclude_paths) ==
    matches_any_pattern(path, exclude_patterns)

should_exclude(path, exclude_patterns, exclude_paths) ==
    IF path \in exclude_paths THEN TRUE
    ELSE matches_any_pattern(path, exclude_patterns)

\* scan_directory that goes on whatever the depth and the visited set say
stops_descent_Never(depth, st_ino, seen) == FALSE

\* The two returns of lines 64-73: past the depth ceiling, or at a directory
\* whose inode was entered before.
stops_descent(depth, st_ino, seen) == depth > MAX_DEPTH \/ st_ino \in seen

Frame(path, ino, depth) ==
    [path |-> path, ino |-> ino, depth |-> depth, entered |-> FALSE, entries |-> <<>>]

ScanRootLists ==
    LET roots == {<<>>, <<src>>, <<src, exp>>}
    IN  {<<r>> : r \in roots} \cup {<<r, q>> : r \in roots, q \in roots}

\* exclude_patterns and exclude_paths: nothing, "**/exp", or the path /src
Exclusions ==
    {[patterns |-> <<>>, paths |-> {}],
     [patterns |-> << <<"*", "*", "/", "e", "x", "p">> >>, paths |-> {}],
     [patterns |-> <<>>, paths |-> {<<src>>}]}

FindCall(fs, scan_paths, x) ==
    [fn |-> "find_git_repos", fs |-> fs, scan_paths |-> scan_paths,
     exclude_patterns |-> x.patterns, exclude_paths |-> x.paths]

FindCalls ==
    {FindCall(fs, sp, x) : fs \in SmallFileSystems, sp \in ScanRootLists, x \in Exclusions}
    \cup {FindCall(fs, << <<>> >>, [patterns |-> <<>>, paths |-> {}]) :
             fs \in DeepFileSystems \cup MountedFileSystems}

InitFind ==
    /\ call \in FindCalls
    /\ ret = Pending
    /\ pc = "walk"
    /\ root = 1 /\ stack = <<>> /\ visited = {}
    /\ disk = NoDisk
    /\ repo_paths = <<>> /\ task = <<>> /\ repos = <<>> /\ idx = 0 /\ pulling = {}
    /\ pull_results = <<>> /\ pull_log = <<>> /\ configured = {}
    /\ results = <<>> /\ counters = ZeroCounters /\ ops = <<>>

Top == stack[Len(stack)]
Pop == SubSeq(stack, 1, Len(stack) - 1)

\* The loop of find_git_repos (lines 30-42): a scan path that does not exist
\* or is no directory is passed over, the others are scanned at depth 0.
NextScanPath ==
    /\ call.fn = "find_git_repos" /\ pc = "walk"
    /\ stack = <<>> /\ root <= Len(call.scan_paths)
    /\ LET scan_path == call.scan_paths[root]
           ino == Resolve(call.fs, 1, scan_path)
       IN  stack' = IF ino = 0 THEN <<>> ELSE <<Frame(scan_path, ino, 0)>>
    /\ root' = root + 1
    /\ UNCHANGED <<call, disk, ret, pc, task, scan_vars, sync_vars, ops, visited>>

\* scan_directory from its first line to the listing of the directory
\* (lines 64-87).
EnterDirectory ==
    /\ call.fn = "find_git_repos" /\ pc = "walk"
    /\ stack # <<>> /\ ~Top.entered
    /\ IF stops_descent(Top.depth, call.fs.st_ino[Top.ino], visited)
       THEN stack' = Pop /\ UNCHANGED <<visited, repo_paths>>
       ELSE /\ visited' = visited \cup {call.fs.st_ino[Top.ino]}
            /\ IF should_exclude(Top.path, call.exclude_patterns, call.exclude_paths)
               THEN stack' = Pop /\ UNCHANGED repo_paths
               ELSE IF Top.ino \in call.fs.git
               THEN stack' = Pop /\ repo_paths' = Append(repo_paths, Top.path)
               ELSE IF Top.ino \in call.fs.denied
               THEN stack' = Pop /\ UNCHANGED repo_paths
               ELSE /\ stack' = [stack EXCEPT ![Len(stack)].entered = TRUE,
                                              ![Len(stack)].entries = call.fs.entries[Top.ino]]
                    /\ UNCHANGED repo_paths
    /\ UNCHANGED <<call, disk, ret, pc, task, repos, idx, pulling, pull_results, pull_log,
                   configured, sync_vars, ops, root>>

\* One turn of the loop over the entries (lines 89-101): a plain file or a
\* name that starts with "." is passed over, a directory is scanned one level
\* deeper; past the last entry scan_directory returns.
NextEntry ==
    /\ call.fn = "find_git_repos" /\ pc = "walk"
    /\ stack # <<>> /\ Top.entered
    /\ Len(stack) <= MAX_DEPTH + 2    \* the calls of depth 0..MAX_DEPTH + 1
    /\ IF Top.entries = <<>> THEN stack' = Pop
       ELSE LET entry == Head(Top.entries)
                rest == [stack EXCEPT ![Len(stack)].entries = Tail(Top.entries)]
            IN  IF entry[2] = 0 \/ IsPrefix(<<".">>, entry[1]) THEN stack' = rest
                ELSE stack' = Append(rest, Frame(Append(Top.path, entry[1]), entry[2],
                                                 Top.depth + 1))
    /\ UNCHANGED <<call, disk, ret, pc, task, scan_vars, sync_vars, ops, root, visited>>

\* The generator is exhausted: list(find_git_repos(...)) is complete.
ReturnFind ==
    /\ call.fn = "find_git_repos" /\ pc = "walk"
    /\ stack = <<>> /\ root > Len(call.scan_paths)
    /\ ret' = Returned(Ok(repo_paths))
    /\ pc' = "done"
    /\ UNCHANGED <<call, disk, task, scan_vars, sync_vars, ops, walk_vars>>

NextFind == NextScanPath \/ EnterDirectory \/ NextEntry \/ ReturnFind

SpecFind == InitFind /\ [][NextFind]_vars

\* The generator is driven by list(): it is resumed until it is exhausted.
FairFind == SpecFind /\ WF_vars(NextFind)

\* ================================================================== claims
\* Lines of a porcelain listing that are not untracked entries ("??").
ChangedEntries(proc) == {k \in 1..Len(proc.stdout) : proc.stdout[k] # <<"?", "?">>}
UntrackedEntries(proc) == {k \in 1..Len(proc.stdout) : proc.stdout[k] = <<"?", "?">>}
Listed(proc) == proc.kind = "exit" /\ proc.returncode = 0
Resolved == call.fn = "resolve" /\ ret.done /\ Listed(call.proc)

\* The remote overlay of section 4.3 over a base status
RemoteOverlay(ahead, behind, base) ==
    CASE ahead > 0 /\ behind > 0 -> "diverged"
      [] ahead > 0 /\ behind = 0 -> "ahead"
      [] ahead = 0 /\ behind > 0 -> "behind"
      [] OTHER -> base

\* C2: should_auto_pull(snapshot, policy) is true iff the policy is enabled, the
\* status is not error, require_clean implies status in {clean, behind},
\* behind_count > 0 and the path matches no skip pattern; and every snapshot that
\* agrees with this one on status, behind_count and path gets the same answer.
C2_EligibilityIff ==
    (call.fn = "should_auto_pull" /\ ret.done) =>
        LET r == call.repo_info
            policy == call.config.auto_pull
        IN  /\ ret.value <=>
                  /\ policy.enabled
                  /\ r.status # "error"
                  /\ policy.require_clean => r.status \in {"clean", "behind"}
                  /\ r.behind_count > 0
                  /\ ~matches_any_pattern(r.path, policy.skip_patterns)
            /\ \A other \in PolicySnapshots :
                  (other.status = r.status /\ other.behind_count = r.behind_count
                      /\ other.path = r.path)
                  => should_auto_pull(other, call.config) = ret.value

C2_Witness ==
    /\ call.fn = "should_auto_pull" /\ ret.done /\ ret.value
    /\ call.config.auto_pull.require_clean
    /\ call.config.auto_pull.skip_patterns # <<>>
    /\ call.repo_info.status = "behind"
    /\ call.repo_info.changed_files > 0

\* C7: a working tree with at least one changed (non-untracked) entry resolves
\* to dirty, for all ahead and behind counts and any number of untracked entries.
C7_DirtyPrecedence ==
    (Resolved /\ ChangedEntries(call.proc) # {}) =>
        (~ret.value.raised /\ ret.value.value.status = "dirty")

C7_Witness ==
    /\ Resolved /\ ChangedEntries(call.proc) # {} /\ UntrackedEntries(call.proc) # {}
    /\ call.ahead > 0 /\ call.behind > 0
    /\ ret.value.value.status = "dirty"

\* C8 as stated: 0 changed and at least 1 untracked entry resolves to untracked
\* for all ahead and behind counts.
C8_UntrackedAlways ==
    (Resolved /\ ChangedEntries(call.proc) = {} /\ UntrackedEntries(call.proc) # {}) =>
        ret.value.value.status = "untracked"

\* C8 amended: 0 changed and at least 1 untracked entry resolves to untracked
\* when ahead = 0 and behind = 0, and otherwise to what the remote overlay
\* gives: diverged, ahead or behind.
C8_UntrackedThenOverlay ==
    (Resolved /\ ChangedEntries(call.proc) = {} /\ UntrackedEntries(call.proc) # {}) =>
        /\ ~ret.value.raised
        /\ ret.value.value.base_status = "untracked"
        /\ ret.value.value.status = RemoteOverlay(call.ahead, call.behind, "untracked")

C8_Witness ==
    /\ Resolved /\ ChangedEntries(call.proc) = {} /\ UntrackedEntries(call.proc) # {}
    /\ call.ahead = 0 /\ call.behind > 0
    /\ ret.value.value.status = "behind"

\* C9: with 0 changed and 0 untracked entries the status is diverged when
\* ahead > 0 and behind > 0, ahead when only ahead > 0, behind when only
\* behind > 0, clean when both are 0.
C9_CleanOverlay ==
    (Resolved /\ call.proc.stdout = <<>>) =>
        /\ ~ret.value.raised
        /\ ret.value.value.status =
              IF call.ahead > 0 /\ call.behind > 0 THEN "diverged"
              ELSE IF call.ahead > 0 THEN "ahead"
              ELSE IF call.behind > 0 THEN "behind"
              ELSE "clean"

C9_Witness ==
    /\ Resolved /\ call.proc.stdout = <<>>
    /\ call.ahead > 0 /\ call.behind > 0
    /\ ret.value.value.status = "diverged"

\* Some command of the analysis raised GitError: it timed out, could not be
\* launched, or was the branch query exiting non-zero.
Commands == {"branch", "status", "upstream", "stash", "fetch", "upstream2", "revlist"}
GitErrorRaised(g) ==
    \/ \E c \in Commands : g[c].kind \in {"timeout", "oserror"}
    \/ (g.branch.kind = "exit" /\ g.branch.returncode # 0)

\* C10: analyze_repo always returns; whenever a gateway call of its sequence
\* raises GitError the snapshot has status error, branch "unknown", all counts
\* zero and error_message set.
C10_ErrorSnapshot ==
    (call.fn = "analyze_repo" /\ ret.done) =>
        /\ ~ret.value.raised
        /\ GitErrorRaised(call.g) =>
              LET info == ret.value.value IN
              /\ info.status = "error"
              /\ info.branch = "unknown"
              /\ info.ahead_count = 0 /\ info.behind_count = 0
              /\ info.changed_files = 0 /\ info.untracked_files = 0
              /\ info.error_message # None
              /\ info.path = call.repo_path

C10_Witness ==
    /\ call.fn = "analyze_repo" /\ ret.done
    /\ call.g.status.kind = "exit" /\ ChangedEntries(call.g.status) # {}
    /\ call.g.fetch.kind = "timeout"
    /\ ret.value.value.status = "error"
    /\ ret.value.value.error_message = "Command timed out"

\* -------------------------------------------------- scan_and_analyze, sync_all
Scanning == call.fn = "scan_and_analyze"
Syncing == call.fn = "sync_all"
Strict == call.config.auto_pull.enabled /\ call.config.auto_pull.require_clean
ScanReturned == Scanning /\ ret.done /\ ~ret.value.raised
SyncReturned == Syncing /\ ret.done /\ ~ret.value.raised
PathsOf(seq) == [q \in 1..Len(seq) |-> seq[q].path]
Ascending(paths) ==
    \A i, j \in 1..Len(paths) : i < j => PathLess(PathParts(paths[i]), PathParts(paths[j]))
NonDescending(paths) ==
    \A i, j \in 1..Len(paths) : i < j => ~PathLess(PathParts(paths[j]), PathParts(paths[i]))

\* C1 as stated: under enabled=true and require_clean=true, the repository a
\* pull is invoked on has no changed entry, no untracked entry, is not ahead of
\* (nor diverged from) its upstream, and has an upstream.
C1_NoPullUnlessPristine ==
    (Scanning /\ Strict /\ pc = "pulling") =>
        /\ repos[idx].changed_files = 0
        /\ repos[idx].untracked_files = 0
        /\ repos[idx].ahead_count = 0
        /\ repos[idx].path \in configured

\* C1: under enabled=true and require_clean=true, the repository a pull is
\* invoked on has no changed entry, has status clean or behind (never dirty,
\* untracked, ahead, diverged or no_remote), is not ahead of its upstream and
\* has an upstream; untracked entries alone do not prevent the pull, since a
\* work tree with untracked entries only that is behind resolves to behind.
C1_NoPullUnlessCleanOrBehind ==
    (Scanning /\ Strict /\ pc = "pulling") =>
        /\ repos[idx].changed_files = 0
        /\ repos[idx].status \in {"clean", "behind"}
        /\ repos[idx].ahead_count = 0
        /\ repos[idx].behind_count > 0
        /\ repos[idx].path \in configured

\* A strict scan passed over a dirty repository that is behind and is pulling
\* the next one.
C1_Witness ==
    /\ Scanning /\ Strict /\ pc = "pulling"
    /\ \E q \in 1..(idx - 1) :
          /\ repos[q].changed_files > 0 /\ repos[q].behind_count > 0
          /\ repos[q].path \notin {pull_log[i] : i \in 1..Len(pull_log)}

\* C3: every pull attempt of the auto-pull stage, one on which git times out
\* or cannot be launched included, leaves exactly one PullResult, and the run
\* goes on to its return: whenever no pull is in progress the paths of
\* pull_results are the paths pull was invoked on, and the returned
\* ScanResult holds them.
C3_EveryPullRecorded ==
    Scanning =>
        /\ pc # "pulling" => PathsOf(pull_results) = pull_log
        /\ ret.done => /\ ~ret.value.raised
                        /\ PathsOf(ret.value.value.pull_results) = pull_log

\* C4: a step of the auto-pull stage changes the snapshots only at the
\* position of an eligible snapshot whose pull came back; a successful pull
\* sets status clean and behind_count 0 and nothing else, a failed pull
\* changes no snapshot and records a PullResult with success=false and
\* files_changed=0.
C4_PullEffects ==
    [][(Scanning /\ pc \in {"auto_pull", "pulling"}) =>
          /\ pc = "auto_pull" => repos' = repos
          /\ pc = "pulling" =>
                /\ Len(pull_results') = Len(pull_results) + 1
                /\ LET r == pull_results'[Len(pull_results')] IN
                   /\ r.path = repos[idx].path
                   /\ r.success =>
                         repos' = [repos EXCEPT ![idx].status = "clean",
                                                ![idx].behind_count = 0]
                   /\ ~r.success => repos' = repos /\ r.files_changed = 0]_vars

\* C5: at most one pull is in progress, and the paths pull was invoked on,
\* like the paths of pull_results, are strictly ascending.
C5_OnePullAscending ==
    Scanning =>
        /\ Cardinality(pulling) <= 1
        /\ Ascending(pull_log)
        /\ Ascending(PathsOf(pull_results))

\* The second pull of a scan is in progress, the first has been recorded.
C5_Witness ==
    /\ Scanning /\ pc = "pulling"
    /\ Len(pull_log) = 2 /\ Len(pull_results) = 1
    /\ pulling = {pull_log[2]}

\* The entries of a list that are not ignored, in list order
RECURSIVE ActiveOf(_)
ActiveOf(rs) ==
    IF rs = <<>> THEN <<>>
    ELSE (IF Head(rs).ignore THEN <<>> ELSE <<Head(rs)>>) \o ActiveOf(Tail(rs))

\* The order sync_all returns the entries in when the workers complete in the
\* order the entries were submitted in.
SubmissionOrdered ==
    LET rs == IgnoredOf(call.repos) \o ActiveOf(call.repos)
    IN  SortByPath(rs, PathsOf(rs))

\* C6: the repos scan_and_analyze returns are ascending by path and the
\* auto-pull loop only sees the sorted list; the results sync_all returns are
\* sorted by path and come in the same order whatever order the workers
\* completed in.
C6_SortedAnyScheduling ==
    /\ ScanReturned => Ascending(PathsOf(ret.value.value.repos))
    /\ (Scanning /\ pc \in {"auto_pull", "pulling"}) => Ascending(PathsOf(repos))
    /\ SyncReturned =>
          LET rs == ret.value.value.results IN
          /\ NonDescending([q \in 1..Len(rs) |-> rs[q].repo.path])
          /\ [q \in 1..Len(rs) |-> rs[q].repo] = SubmissionOrdered


\* ------------------------------------------- analyze_repo, get_remote_status
Analysed == call.fn = "analyze_repo" /\ ret.done
RemoteAsked == call.fn = "get_remote_status" /\ ret.done
Issued(cmd) == {i \in DOMAIN ops : ops[i].cmd = cmd}

\* C11: a snapshot analyze_repo produces has status error if and only if its
\* error_message is set.
C11_ErrorIffMessage ==
    Analysed =>
        /\ ~ret.value.raised
        /\ ret.value.value.status = "error" <=> ret.value.value.error_message # None

\* C12: when an upstream is present and the fetch fails (non-zero exit,
\* timeout or git cannot be launched), analyze_repo still goes on to the
\* ahead/behind computation, and the snapshot has status error only if
\* another command is the cause: the status command exited non-zero or a
\* command of the ahead/behind computation raised.
C12_FetchBestEffort ==
    (Analysed /\ \E i \in Issued("fetch") : ~ops[i].ok) =>
        /\ \E i \in Issued("fetch"), j \in Issued("rev-parse @{upstream}") : i < j
        /\ ret.value.value.status = "error" =>
              \/ call.g.status.returncode # 0
              \/ call.g.upstream2.kind \in {"timeout", "oserror"}
              \/ call.g.revlist.kind \in {"timeout", "oserror"}

\* C13: get_remote_status never raises, and returns (0, 0) when there is no
\* upstream, when a command fails or times out, and when the output of
\* rev-list does not parse.
C13_RemoteNeverRaises ==
    RemoteAsked =>
        /\ ~ret.value.raised
        /\ (\/ ~(Listed(call.upstream_proc))
            \/ ~(Listed(call.revlist_proc))
            \/ Len(call.revlist_proc.stdout) # 2
            \/ \E k \in DOMAIN call.revlist_proc.stdout : ~call.revlist_proc.stdout[k].isdigit)
           => ret.value.value = <<0, 0>>

\* C14: rev-list is issued only right after an upstream check that returned
\* true; get_remote_status returns (0, 0) when has_upstream is false,
\* whatever rev-list would report; and a snapshot of a repository without
\* upstream has ahead_count = behind_count = 0.
C14_RevlistAfterUpstream ==
    /\ ret.done =>
          \A i \in Issued("rev-list") : i > 1 /\ ops[i - 1] = Op("rev-parse @{upstream}", TRUE)
    /\ (RemoteAsked /\ call.upstream_proc.kind = "exit" /\ call.upstream_proc.returncode # 0)
          => ret.value = Ok(<<0, 0>>) /\ Issued("rev-list") = {}
    /\ (Analysed /\ ~call.g.configured) =>
          /\ ret.value.value.ahead_count = 0 /\ ret.value.value.behind_count = 0
          /\ Issued("rev-list") = {}

\* The upstream check says there is no upstream while rev-list, had it been
\* issued, would have reported one commit ahead and one behind.
C14_Witness ==
    /\ RemoteAsked
    /\ call.upstream_proc = Exit(128, <<>>)
    /\ call.revlist_proc = Exit(0, <<Number(1), Number(1)>>)
    /\ ret.value = Ok(<<0, 0>>)
    /\ ops = <<Op("rev-parse @{upstream}", FALSE)>>

\* ------------------------------------------------------------ find_git_repos
Finding == call.fn = "find_git_repos"
Found == Finding /\ ret.done
Excluded(path) ==
    path \in call.exclude_paths \/ matches_any_pattern(path, call.exclude_patterns)

\* C15: find_git_repos never yields a path that lies beneath (or equals)
\* another path it yields in the same call.
C15_NoNestedYield ==
    Finding =>
        \A i, j \in DOMAIN repo_paths : i # j => ~IsPrefix(repo_paths[i], repo_paths[j])

\* C16: find_git_repos terminates, on a symlink cycle and on a chain deeper
\* than the depth ceiling too, having yielded at most one path per directory.
C16_ScanTerminates ==
    <>(Found /\ Len(ret.value.value) <= Len(call.fs.entries))

\* The scan of a chain whose repository lies below the depth ceiling and
\* whose last directory links back to "/" has returned, with nothing found.
C16_Witness ==
    /\ Found
    /\ call.fs = DeepFileSystem(MAX_DEPTH + 1, TRUE)
    /\ ret.value.value = <<>>
    /\ Cardinality(visited) = MAX_DEPTH + 1

\* C17 as stated: no yielded path is an excluded directory or lies beneath one.
C17_NothingBeneathExcluded ==
    Finding =>
        \A i \in DOMAIN repo_paths :
            \A k \in 0..Len(repo_paths[i]) : ~Excluded(SubSeq(repo_paths[i], 1, k))

\* C17: an excluded directory is pruned before the repository check: every
\* yielded path was reached from a scan path through directories none of
\* which, the scan path and the yielded path included, is excluded.
C17_ExcludedPruned ==
    Finding =>
        \A i \in DOMAIN repo_paths :
            \E r \in DOMAIN call.scan_paths :
                /\ IsPrefix(call.scan_paths[r], repo_paths[i])
                /\ \A k \in Len(call.scan_paths[r])..Len(repo_paths[i]) :
                      ~Excluded(SubSeq(repo_paths[i], 1, k))

\* "/" was scanned with /src excluded; /src and /src/exp both hold a .git
\* directory and neither was yielded.
C17_Witness ==
    /\ Found
    /\ call.scan_paths = << <<>> >> /\ call.exclude_paths = {<<src>>}
    /\ Resolve(call.fs, 1, <<src, exp>>) = 3
    /\ call.fs.git = {2, 3} /\ call.fs.denied = {}
    /\ 2 \in visited /\ 3 \notin visited
    /\ ret.value.value = <<>>

\* ------------------------------------------------------------------ sync_repo
SyncedOne == call.fn = "sync_repo" /\ ret.done
GatewayCommands == {"fetch", "rev-parse @{upstream}", "rev-list", "pull", "clone --branch", "clone"}
GatewayOps == {i \in DOMAIN ops : ops[i].cmd \in GatewayCommands}
Reported(action) == ~ret.value.raised /\ ret.value.value.action = action

\* The behind count the gateway's contract gives for an environment: that of
\* a parsable rev-list output under a configured upstream, else zero.
BehindOf(env) ==
    IF env.upstream.kind = "exit" /\ env.upstream.returncode = 0
       /\ env.revlist.kind = "exit" /\ env.revlist.returncode = 0
       /\ Len(env.revlist.stdout) = 2
       /\ env.revlist.stdout[1].isdigit /\ env.revlist.stdout[2].isdigit
    THEN env.revlist.stdout[1].n
    ELSE 0

\* C18: sync_repo follows its decision table.  A missing path is cloned; a
\* path without .git is an error "not a git repo" whatever pull_existing is;
\* an existing repository with pull_existing false is skipped "Already
\* exists" with no gateway call; with a behind count of zero after the fetch
\* it is skipped "Already up to date" with no pull; otherwise there is exactly
\* one pull, reported pulled if it succeeds and error if it fails.
C18_DecisionTable ==
    SyncedOne =>
        LET env == call.env IN
        IF ~env.exists
        THEN /\ ops[2].cmd = "mkdir"
             /\ Issued("fetch") = {} /\ Issued("pull") = {}
        ELSE IF ~env.git_dir
        THEN /\ Reported("error")
             /\ Contains(ret.value.value.message, <<"not", "a", "git", "repo">>)
        ELSE IF ~call.pull_existing
        THEN /\ Reported("skipped")
             /\ ret.value.value.message = <<"Already", "exists">>
             /\ GatewayOps = {}
        ELSE IF BehindOf(env) = 0
        THEN /\ Reported("skipped")
             /\ ret.value.value.message = <<"Already", "up", "to", "date">>
             /\ Issued("pull") = {}
        ELSE /\ Cardinality(Issued("pull")) = 1
             /\ \A i \in Issued("pull") :
                   IF ops[i].ok THEN Reported("pulled") ELSE Reported("error")

\* ----------------------------------------------------------------- clone_repo
Cloning == SyncedOne /\ ~call.env.exists
Clones == Issued("clone --branch") \cup Issued("clone")

\* The message of a clone that did not succeed, as clone_repo reports it: the
\* text of git's fatal or error line, or that of the GitError.
CloneMessage(proc) ==
    CASE proc.kind = "timeout" -> <<"Command", "timed", "out">>
      [] proc.kind = "oserror" -> <<"Failed", "to", "run", "git">>
      [] OTHER -> Tail(proc.stderr)

\* C19: clone_repo invokes the gateway's clone at most twice.  A clone
\* without the branch argument is the second one: it follows a first clone
\* that failed with a branch-not-found message, and comes directly after the
\* destination was removed or found absent.  If it succeeds the result is
\* cloned with a message containing "default branch"; if it fails the result
\* is error with its message.  After any other failure of the first clone
\* the result is error and clone was invoked once.
C19_CloneRetry ==
    Cloning =>
        /\ Cardinality(Issued("clone --branch")) <= 1
        /\ Cardinality(Issued("clone")) <= 1
        /\ \A i \in Issued("clone") :
              /\ \E j \in Issued("clone --branch") : j < i /\ ~ops[j].ok
              /\ call.env.clone = CloneExit(128, BranchNotFound)
              /\ ops[i - 1] \in {Op("rmtree", TRUE), Op("path.exists", FALSE)}
              /\ IF ops[i].ok
                 THEN /\ Reported("cloned")
                      /\ Contains(ret.value.value.message, <<"default", "branch">>)
                 ELSE /\ Reported("error")
                      /\ ret.value.value.message = CloneMessage(call.env.retry)
        /\ \A j \in Issued("clone --branch") :
              (~ops[j].ok /\ call.env.clone # CloneExit(128, BranchNotFound)) =>
                  /\ Reported("error")
                  /\ ret.value.value.message = CloneMessage(call.env.clone)
                  /\ Cardinality(Clones) = 1

\* The branch dev is missing on the remote: the first clone failed and left
\* the destination behind, it was removed, and the clone without a branch
\* succeeded.
C19_Witness ==
    /\ Cloning
    /\ call.repo.branch = "dev"
    /\ ops = <<Op("path.exists", FALSE), Op("mkdir", TRUE), Op("clone --branch", FALSE),
               Op("path.exists", TRUE), Op("rmtree", TRUE), Op("clone", TRUE)>>
    /\ ret.value = Ok(SyncRepoResult(call.repo, "cloned",
                                     <<"Cloned", "default", "branch", "wanted:", "dev">>))

\* ------------------------------------------------------------------- sync_all
Partitioned == Syncing /\ pc # "partition"
SameEntries(k) == {j \in DOMAIN call.repos : call.repos[j] = call.repos[k]}
IgnoredResults(k) ==
    {q \in DOMAIN results : results[q] = SyncRepoResult(call.repos[k], "skipped", <<"Ignored">>)}

\* C20: once sync_all has partitioned its list, every entry with ignore=true
\* has a skipped result with message "Ignored"; sync_repo is never submitted
\* or run for it, and no filesystem or gateway operation is performed for it.
C20_IgnoredUntouched ==
    Partitioned =>
        \A k \in DOMAIN call.repos :
            call.repos[k].ignore =>
                /\ task[k] = "ignored"
                /\ \A i \in DOMAIN ops : ops[i].entry # k
                /\ Cardinality(IgnoredResults(k)) = Cardinality(SameEntries(k))

\* sync_all has returned for a list whose first entry is ignored and whose
\* second was fetched and pulled: the operations all belong to the second.
C20_Witness ==
    /\ SyncReturned
    /\ call.repos[1].ignore /\ ~call.repos[2].ignore
    /\ call.repos[1].path = call.repos[2].path
    /\ ret.value.value.skipped = 1 /\ ret.value.value.pulled = 1
    /\ \E i \in DOMAIN ops : ops[i].cmd = "pull" /\ ops[i].entry = 2

\* The failed clone, pull and destination operations of entry k
FailedOps(k) == {i \in DOMAIN ops : ops[i].entry = k /\ ~ops[i].ok
                                    /\ ops[i].cmd \in {"mkdir", "rmtree", "clone --branch",
                                                       "clone", "pull"}}

\* C21: in sync_all a failure of one entry's clone, pull or destination
\* handling never leaves sync_all as an exception: sync_all comes back with a
\* SyncResult that holds a result for every entry, and an entry whose mkdir,
\* rmtree, clone or pull failed has an error result of its own.
C21_FailureIsolated ==
    Syncing =>
        /\ pc # "raised"
        /\ ret.done =>
              /\ ~ret.value.raised
              /\ Len(ret.value.value.results) = Len(call.repos)
              /\ \A k \in DOMAIN call.repos :
                    FailedOps(k) # {} =>
                        \E q \in DOMAIN ret.value.value.results :
                            /\ ret.value.value.results[q].repo = call.repos[k]
                            /\ ret.value.value.results[q].action = "error"

\* ------------------------------------------------------------ detect_warnings
Warned == call.fn = "detect_warnings" /\ ret.done
Has(w) == \E i \in DOMAIN ret.value : ret.value[i] = w
ConfiguredMain ==
    CASE call.main_branches = <<"main", "master">> -> call.branch \in {"main", "Main"}
      [] call.main_branches = <<"Main">> -> call.branch \in {"main", "Main"}
      [] call.main_branches = <<"main", "head">> -> call.branch \in {"main", "Main", "HEAD"}

PlainScan ==
    /\ Found
    /\ call.scan_paths = << <<>> >>
    /\ call.exclude_patterns = <<>> /\ call.exclude_paths = {}
    /\ call.fs.denied = {}
    /\ \A d \in DOMAIN call.fs.entries :
          \A k \in DOMAIN call.fs.entries[d] : call.fs.entries[d][k][1] # lib

\* The paths of the directories of a small tree
TreePaths == UNION {[1..n -> {src, exp, app, api}] : n \in 1..MaxDirs}

\* A repository that lies in no other repository
Outermost(path) ==
    /\ Resolve(call.fs, 1, path) \in call.fs.git
    /\ \A k \in 0..(Len(path) - 1) : Resolve(call.fs, 1, SubSeq(path, 1, k)) \notin call.fs.git

\* C25: cycle protection never takes one directory for another.  In a tree
\* without symlinks no directory is met twice, so none is abandoned as
\* visited: every repository that lies in no other repository is yielded.
C25_DistinctNeverConfused ==
    PlainScan =>
        \A path \in TreePaths :
            Outermost(path) => \E i \in DOMAIN repo_paths : repo_paths[i] = path

\* -------------------------------------------------------------- the two pools
Drained == \A k \in DOMAIN task : task[k] \in {"ignored", "done"}

\* C24: with every git command returning or running into its timeout, every
\* analysis and sync task eventually finishes and leaves its pool thread, and
\* scan_and_analyze and sync_all eventually come back.
C24_PoolsDrain == <>[](ret.done /\ Drained)

\* sync_all has come back for two entries, the fetch of the first of which
\* timed out: both tasks ran to their end.
C24_Witness ==
    /\ SyncReturned
    /\ call.pull_existing
    /\ Drained /\ Len(ret.value.value.results) = 2
    /\ \E i, j \in DOMAIN ops :
          /\ i < j
          /\ ops[i] = [entry |-> 1, cmd |-> "fetch", ok |-> FALSE]
          /\ ops[j].entry = 2
    /\ ret.value.value.errors = 1

\* --------------------------------------------------- analysis before pulls
\* C26: in scan_and_analyze a pull is invoked only after every analysis task
\* has finished, its snapshot has been collected, and the snapshots have been
\* sorted by path.
C26_PullsAfterAnalysis ==
    (Scanning /\ (pull_log # <<>> \/ pulling # {})) =>
        /\ \A k \in DOMAIN task : task[k] = "done"
        /\ Len(repos) = Len(repo_paths)
        /\ NonDescending(PathsOf(repos))

\* The first pull is in progress: every analysis is done and the snapshots
\* stand in ascending order of path.
C26_Witness ==
    /\ Scanning /\ pc = "pulling"
    /\ Len(pull_log) = 1 /\ pull_results = <<>>
    /\ \A k \in DOMAIN task : task[k] = "done"
    /\ Len(repos) = NumRepos
    /\ Ascending(PathsOf(repos))

\* ------------------------------------------------- local changes in the report
\* C27: in every ScanResult a snapshot with at least one changed file has
\* status dirty, whatever the policy and after the updates of auto-pull.
C27_ChangesNeverMasked ==
    ScanReturned =>
        \A q \in DOMAIN ret.value.value.repos :
            ret.value.value.repos[q].changed_files >= 1 =>
                ret.value.value.repos[q].status = "dirty"

PulledOk(path) ==
    \E i \in DOMAIN ret.value.value.pull_results :
        /\ ret.value.value.pull_results[i].path = path
        /\ ret.value.value.pull_results[i].success

\* C27, amended: in every ScanResult a snapshot with at least one changed
\* file has status dirty, unless the policy does not require a clean tree and
\* a successful auto-pull of that repository has set it to clean.
C27_MaskedOnlyByLaxPull ==
    ScanReturned =>
        \A q \in DOMAIN ret.value.value.repos :
            LET r == ret.value.value.repos[q] IN
            r.changed_files >= 1 =>
                \/ r.status = "dirty"
                \/ /\ ~call.config.auto_pull.require_clean
                   /\ r.status = "clean" /\ r.behind_count = 0
                   /\ PulledOk(r.path)

\* Under a policy that does not require a clean tree a repository with a
\* changed file was pulled without success: it is reported dirty.
C27_Witness ==
    /\ ScanReturned
    /\ ~call.config.auto_pull.require_clean
    /\ \E q \in DOMAIN ret.value.value.repos :
          LET r == ret.value.value.repos[q] IN
          /\ r.changed_files >= 1 /\ r.behind_count >= 1 /\ r.status = "dirty"
          /\ \E i \in DOMAIN ret.value.value.pull_results :
                /\ ret.value.value.pull_results[i].path = r.path
                /\ ~ret.value.value.pull_results[i].success

\* ------------------------------------------------------ one snapshot per path
SnapshotsOf(path) ==
    {q \in DOMAIN ret.value.value.repos : ret.value.value.repos[q].path = path}

\* C29: ScanResult.repos holds exactly one snapshot for each path the scanner
\* yielded and none for any other path, also when an analysis failed, and
\* total_scanned is the number of snapshots.
C29_OneSnapshotPerPath ==
    ScanReturned =>
        /\ \A k \in DOMAIN repo_paths : Cardinality(SnapshotsOf(repo_paths[k])) = 1
        /\ \A q \in DOMAIN ret.value.value.repos :
              \E k \in DOMAIN repo_paths : ret.value.value.repos[q].path = repo_paths[k]
        /\ Len(ret.value.value.repos) = Len(repo_paths)
        /\ ret.value.value.total_scanned = Len(ret.value.value.repos)

\* The analysis of the first path failed: the result holds its error
\* snapshot and the snapshot of the second path, which sorts first.
C29_Witness ==
    /\ ScanReturned
    /\ ret.value.value.repos[2].path = repo_paths[1]
    /\ ret.value.value.repos[2].status = "error"
    /\ ret.value.value.repos[2].error_message = "Command timed out"
    /\ ret.value.value.repos[1].path = repo_paths[2]
    /\ ret.value.value.repos[1].status # "error"
    /\ ret.value.value.total_scanned = NumRepos

\* ---------------------------------------------------- one result per entry
ResultsWith(action) ==
    {q \in DOMAIN ret.value.value.results : ret.value.value.results[q].action = action}

\* C30: the SyncResult of sync_all holds exactly one result per input entry,
\* ignored or not, equal entries included, and each counter is the number of
\* results with its action, so the four counters add up to the number of
\* entries.
C30_OneResultPerEntry ==
    SyncReturned =>
        LET r == ret.value.value IN
        /\ Len(r.results) = Len(call.repos)
        /\ \A k \in DOMAIN call.repos :
              Cardinality({q \in DOMAIN r.results : r.results[q].repo = call.repos[k]})
                  = Cardinality(SameEntries(k))
        /\ r.cloned = Cardinality(ResultsWith("cloned"))
        /\ r.pulled = Cardinality(ResultsWith("pulled"))
        /\ r.skipped = Cardinality(ResultsWith("skipped"))
        /\ r.errors = Cardinality(ResultsWith("error"))
        /\ r.cloned + r.pulled + r.skipped + r.errors = Len(call.repos)

\* The same entry twice: the second task finished first with an error, the
\* first was pulled.
C30_Witness ==
    /\ SyncReturned
    /\ call.repos[1] = call.repos[2] /\ ~call.repos[1].ignore
    /\ ret.value.value.errors = 1 /\ ret.value.value.pulled = 1
    /\ ops[1].entry = 2

\* The entries of the call name pairwise distinct paths.
DistinctPaths ==
    \A j, k \in 1..NumTracked : j # k => call.repos[j].path # call.repos[k].path

\* One of the distinct paths lies beneath another.
NestedPaths ==
    \E j, k \in 1..NumTracked :
        j # k /\ IsPrefix(call.repos[j].path, call.repos[k].path)

\* What a run of sync_all reported for entry k
RunResultOf(k, run) ==
    LET part == SubSeq(results, (run - 1) * NumTracked + 1, run * NumTracked)
    IN  CHOOSE r \in {part[i] : i \in DOMAIN part} : r.repo = call.repos[k]

\* What sync_repo reports for entry k when it is the only worker on the disk
\* the call started from
AloneOnDisk(k) ==
    sync_repo(call.repos[k], call.pull_existing,
              EnvOf(call.disk, call.repos[k], call.fetch)).result.value

FirstRunOver == call.fn = "sync" /\ idx = 2

\* C28: for entries with pairwise distinct paths, nested ones included, what
\* sync_all reports for an entry is what that entry's worker would report on
\* its own: the action and message do not depend on how the workers are
\* interleaved, because no worker's mkdir, clone or rmtree changes what
\* another worker finds at its path.
C28_ActionIndependentOfInterleaving ==
    (FirstRunOver /\ DistinctPaths) =>
        \A k \in 1..NumTracked : RunResultOf(k, 1).action = AloneOnDisk(k).action

\* C28 for paths none of which lies beneath another
C28_HoldsForDisjointPaths ==
    (FirstRunOver /\ DistinctPaths /\ ~NestedPaths) =>
        \A k \in 1..NumTracked : RunResultOf(k, 1) = AloneOnDisk(k)

FullySynced(r) ==
    \/ r.action \in {"cloned", "pulled"}
    \/ r.action = "skipped" /\ r.message = <<"Already", "up", "to", "date">>

BothRunsOver == call.fn = "sync" /\ ret.done

\* C22: when a run of sync_all with pull_existing=true left every entry
\* cloned, pulled or up to date, the run that follows at once on the same
\* list, with the remote unchanged and fetch answering, clones nothing, pulls
\* nothing and reports skipped "Already up to date" for every entry.
C22_SecondRunIdle ==
    (/\ BothRunsOver /\ call.pull_existing /\ call.fetch = Exit(0, <<>>)
     /\ \A i \in 1..NumTracked : FullySynced(results[i]))
    => /\ \A i \in (NumTracked + 1)..(2 * NumTracked) :
              /\ results[i].action = "skipped"
              /\ results[i].message = <<"Already", "up", "to", "date">>
       /\ \A i \in DOMAIN ops :
              ops[i].run = 2 => ops[i].cmd \notin {"clone --branch", "clone", "pull"}

\* C22 for lists in which no path lies beneath another
C22_HoldsForDisjointPaths ==
    (BothRunsOver /\ NestedPaths) \/ C22_SecondRunIdle

====
